---- MODULE Spec2Model ----
(***************************************************************************)
(* BioLens: the model-fallback generation pipeline (agents/modelManager.py)*)
(* and the session-scoped rate limiter (agents/analysisAgent.py,           *)
(* agents/services.py, auth/session.py).                                   *)
(*                                                                         *)
(* Time is counted in whole seconds: timedelta.seconds and timedelta.days  *)
(* are what check_rate_limit reads, and both ignore the microseconds.      *)
(* Texts whose characters the code inspects are sequences of one-character *)
(* strings; texts the code only passes around are TLA+ strings.            *)
(***************************************************************************)
EXTENDS Integers, Sequences, FiniteSets, TLC

VARIABLES
    clients,        \* ModelManager.clients: the providers with a client
    oracle,         \* what the provider answers to the n-th request of a call
    gen_args,       \* the (data, system_prompt) of the generate_analysis call
    gen_events,     \* what that call did, in order: log lines, requests, sleeps
    gen_result,     \* what that call returned, NoResult before it returns
    now,            \* datetime.now(), in seconds
    ss,             \* st.session_state: the keys present and their values
    op,             \* the last operation: its name, the state it met, its return
    succ_times      \* when the identity's successful analyses of the last day ran

genVars == <<clients, oracle, gen_args, gen_events, gen_result>>
sessVars == <<now, ss, op, succ_times>>

vars == <<genVars, sessVars>>

----------------------------------------------------------------------------
(* Bounds of the model *)

\* the provider's answers are fixed for the first OracleLen requests of a call
OracleLen == 5

\* analyses the identity may have run within one day before the model stops
MaxRecent == 16

----------------------------------------------------------------------------
(* Texts as character sequences *)

NL == "\n"

UpperCase == <<"A","B","C","D","E","F","G","H","I","J","K","L","M","N","O","P","Q","R","S","T","U","V","W","X","Y","Z">>
LowerCase == <<"a","b","c","d","e","f","g","h","i","j","k","l","m","n","o","p","q","r","s","t","u","v","w","x","y","z">>

\* str.lower() on one character
LowerChar(c) ==
    LET at == {i \in 1..26 : UpperCase[i] = c}
    IN IF at = {} THEN c ELSE LowerCase[CHOOSE i \in at : TRUE]

Lower(s) == [i \in 1..Len(s) |-> LowerChar(s[i])]

\* Python's `needle in hay` on strings
Contains(hay, needle) ==
    \E i \in 0..(Len(hay) - Len(needle)) :
        \A j \in 1..Len(needle) : hay[i + j] = needle[j]

\* str.split('\n'): the lines of a text
RECURSIVE Split(_)
Split(text) ==
    IF \A i \in 1..Len(text) : text[i] # NL
    THEN <<text>>
    ELSE LET i == CHOOSE j \in 1..Len(text) :
                    text[j] = NL /\ \A k \in 1..(j - 1) : text[k] # NL
         IN <<SubSeq(text, 1, i - 1)>> \o Split(SubSeq(text, i + 1, Len(text)))

\* a value that is None where the code expects a text
NoneText == <<"None">>

(* Python dicts: a function where only the keys matter, a sequence of
   <<key, value>> pairs where the code iterates in insertion order *)
Has(d, k) == k \in DOMAIN d
Get(d, k, default) == IF Has(d, k) THEN d[k] ELSE default
Put(d, k, v) == [x \in DOMAIN d \cup {k} |-> IF x = k THEN v ELSE d[x]]
SetDefault(d, k, v) == IF Has(d, k) THEN d ELSE Put(d, k, v)
EmptyDict == <<>>

OHas(d, k) == \E i \in 1..Len(d) : d[i][1] = k
OGet(d, k) == d[CHOOSE i \in 1..Len(d) : d[i][1] = k][2]
OPut(d, k, v) ==
    IF OHas(d, k)
    THEN [i \in 1..Len(d) |-> IF d[i][1] = k THEN <<k, v>> ELSE d[i]]
    ELSE Append(d, <<k, v>>)

RATE_LIMIT == <<"r","a","t","e"," ","l","i","m","i","t">>
QUOTA == <<"q","u","o","t","a">>

\* str(e) of the exceptions the provider raises in the model
ErrTimeout == <<"t","i","m","e","d"," ","o","u","t">>
ErrRateLimit == <<"R","a","t","e"," ","L","i","m","i","t"," ","4","2","9">>
ErrQuota == <<"Q","U","O","T","A"," ","u","s","e","d">>
ErrRateHyphen == <<"r","a","t","e","-","l","i","m","i","t">>
\* str(IndexError) of completion.choices[0] on an empty list
ErrIndex == <<"l","i","s","t"," ","i","n","d","e","x">>

----------------------------------------------------------------------------
(* agents/modelManager.py *)

ModelTier == {"primary", "secondary", "tertiary", "fallback"}

MODEL_CONFIG ==
    [tier \in ModelTier |->
        [provider |-> "groq",
         model |-> CASE tier = "primary" -> "llama-3.3-70b-versatile"
                     [] tier = "secondary" -> "llama-3-8b-8192"
                     [] tier = "tertiary" -> "mixtral-8x7b-32768"
                     [] tier = "fallback" -> "gemma-7b-it",
         max_tokens |-> 2000,
         temperature |-> "0.7"]]

\* _initialize_clients: the groq client, or none when its construction raised
ClientSets == {{"groq"}, {}}

\* the tier generate_analysis picks for a retry count
TierOfBad(retry_count) ==
    IF retry_count = 0 THEN "primary"
    ELSE IF retry_count = 1 THEN "secondary"
    ELSE IF retry_count = 3 THEN "tertiary"
    ELSE "fallback"

TierOf(retry_count) ==
    IF retry_count = 0 THEN "primary"
    ELSE IF retry_count = 1 THEN "secondary"
    ELSE IF retry_count = 2 THEN "tertiary"
    ELSE "fallback"

\* the recursion stops once retry_count is past the last tier
ExhaustedBad(retry_count) == retry_count > 4

Exhausted(retry_count) == retry_count > 3

\* str(data) of the user message
Str(data) == <<"str", data>>

\* the retry count of the recursive call
NextRetryBad(retry_count) == retry_count + 2

NextRetry(retry_count) == retry_count + 1

\* f"{provider}/{model}"
ModelUsedBad(provider, model) == model

ModelUsed(provider, model) == provider \o "/" \o model

FailureBad(error) == [success |-> FALSE, error |-> error, content |-> NoneText]

Failure(error) == [success |-> FALSE, error |-> error]

Success(content, model_used) ==
    [success |-> TRUE, content |-> content, model_used |-> model_used]

ALL_FAILED == "All models failed after multiple retries"

\* the except branch's test of the lower-cased error text
IsRateLimitErrorBad(error_message) == Contains(error_message, RATE_LIMIT)

IsRateLimitError(error_message) ==
    Contains(error_message, RATE_LIMIT) \/ Contains(error_message, QUOTA)

\* What the provider can do with one request: raise, or answer with a
\* completion whose choices list is empty or holds one message.
Raise(text) == [kind |-> "raise", text |-> text]
Completion(choices) == [kind |-> "completion", choices |-> choices]
NoContent == NoneText
ANALYSIS_HEMO == <<"S","u","m","m","a","r","y",NL,"H","e","m","o","g","l","o","b","i","n"," ","i","s"," ","w","i","t","h","i","n"," ","n","o","r","m","a","l"," ","r","a","n","g","e",".",NL,"h","e","m","o","g","l","o","b","i","n"," ","o","k">>
ANALYSIS_GLUC == <<"G","l","u","c","o","s","e"," ","i","s"," ","h","i","g","h",".",NL,"H","D","L"," ","l","o","w">>
ANALYSIS_HDL == <<"o","k",NL,"H","D","L"," ","l","o","w">>
Contents == {ANALYSIS_HEMO, ANALYSIS_GLUC, ANALYSIS_HDL}

Outcomes ==
    {Raise(t) : t \in {ErrTimeout, ErrRateLimit, ErrQuota, ErrRateHyphen}}
    \cup {Completion(<<[content |-> c]>>) : c \in Contents \cup {NoContent}}
    \cup {Completion(<<>>)}

LogLine(level, what, about, detail) ==
    [ev |-> "log", level |-> level, what |-> what, about |-> about,
     detail |-> detail]

Request(model, system_prompt, data, cfg) ==
    [ev |-> "request", model |-> model,
     system |-> system_prompt, user |-> Str(data),
     temperature |-> cfg.temperature, max_tokens |-> cfg.max_tokens]

SleepEv == [ev |-> "sleep", seconds |-> 2]

IsRequest(e) == e.ev = "request"
IsSleep(e) == e.ev = "sleep"
IsAttemptLog(e) == e.ev = "log" /\ e.level = "info"

\* the call's requests so far
RequestsOf(events) == SelectSeq(events, IsRequest)

\* if provider not in self.clients
NoClientBad(provider, cl) == FALSE

NoClient(provider, cl) == provider \notin cl

\* a text as one string
RECURSIVE Flat(_)
Flat(text) == IF text = <<>> THEN "" ELSE text[1] \o Flat(Tail(text))

\* the result of a call whose retry_count is past the last tier
ExhaustedResultBad(events) ==
    LET failed == SelectSeq(events,
                      LAMBDA e : e.ev = "log" /\ e.level = "warning")
    IN IF failed = <<>> THEN Failure(ALL_FAILED)
       ELSE Failure(Flat(failed[Len(failed)].detail))

ExhaustedResult(events) == Failure(ALL_FAILED)

\* ModelManager.generate_analysis(data, system_prompt, retry_count); `orc` is the
\* provider's answer to each request of the call, `cl` is self.clients and
\* `events` what the call has done so far. Yields [events, result].
RECURSIVE generate_analysis(_, _, _, _, _, _)
generate_analysis(data, system_prompt, retry_count, orc, cl, events) ==
    IF Exhausted(retry_count)
    THEN [events |-> events, result |-> ExhaustedResult(events)]
    ELSE
      LET tier == TierOf(retry_count)
          model_config == MODEL_CONFIG[tier]
          provider == model_config.provider
          model == model_config.model
      IN
      IF NoClient(provider, cl)
      THEN generate_analysis(data, system_prompt, NextRetry(retry_count), orc, cl,
               Append(events, LogLine("error", "no client", provider, <<>>)))
      ELSE
        LET n == Len(RequestsOf(events)) + 1
            answer == orc[n]
            sent == events \o
                      << LogLine("info", "attempting", model, <<>>),
                         Request(model, system_prompt, data, model_config) >>
            \* the exception the try block ends with, if any
            raised ==
                IF answer.kind = "raise" THEN answer.text
                ELSE IF Len(answer.choices) = 0 THEN ErrIndex
                ELSE <<>>
        IN
        IF answer.kind = "completion" /\ Len(answer.choices) > 0
        THEN [events |-> sent,
              result |-> Success(answer.choices[1].content,
                                 ModelUsed(provider, model))]
        ELSE
          LET error_message == Lower(raised)
              warned == Append(sent, LogLine("warning", "failed", model,
                                             error_message))
              slept == IF IsRateLimitError(error_message)
                       THEN Append(warned, SleepEv)
                       ELSE warned
          IN generate_analysis(data, system_prompt, NextRetry(retry_count), orc, cl,
                               slept)

----------------------------------------------------------------------------
(* The requests handed to the pipeline *)

Prompts == {"PROMPT-1", "PROMPT-2"}

REPORT_HEMO == <<"H","e","m","o","g","l","o","b","i","n",":"," ","1","4",".","2"," ","g","/","d","L">>
REPORT_GLUC == <<"G","L","U","C","O","S","E"," ","9","9",","," ","h","d","l"," ","4","0">>

\* the dict handle_form_submission builds; the age is the decimal text of the
\* number the form gives, which is what f"{age}" renders
DATA_ANN ==
    [patient_name |-> "Ann", age |-> "30", gender |-> "Female",
     report |-> REPORT_HEMO]
DATA_BOB ==
    [patient_name |-> "Bob", age |-> "41", gender |-> "Male",
     report |-> REPORT_GLUC]

REPORT_HDL == <<"H","D","L"," ","4","0">>
DATA_CAL ==
    [patient_name |-> "Cal", age |-> "52", gender |-> "Male",
     report |-> REPORT_HDL]

Datas == {DATA_ANN, DATA_BOB}

NoResult == [pending |-> TRUE]

\* the answers TLC draws for a call's requests
GenOutcomes ==
    { Raise(ErrTimeout), Raise(ErrRateLimit), Completion(<<>>),
      Completion(<<[content |-> ANALYSIS_HEMO]>>) }

GenOracles == [1..OracleLen -> GenOutcomes]

----------------------------------------------------------------------------
(* agents/analysisAgent.py *)

DAY == 86400
HOUR == 3600
MINUTE == 60
ANALYSIS_LIMIT == 15

\* the None of check_rate_limit's (True, None)
NoMessage == "None"

\* AnalysisAgent._init_state at time t
_init_state(s, t) ==
    LET s1 == SetDefault(s, "analysis_count", 0)
        s2 == SetDefault(s1, "last_analysis", t)
        s3 == SetDefault(s2, "analysis_limit", ANALYSIS_LIMIT)
        s4 == SetDefault(s3, "models_used", EmptyDict)
    IN SetDefault(s4, "knowledge_base", <<>>)

\* timedelta.days and timedelta.seconds of a duration in seconds
TimedeltaDays(d) == d \div DAY
TimedeltaSecondsBad(d) == d

TimedeltaSeconds(d) == d % DAY

\* `time_until_reset.days < 0`
ExpiredBad(time_until_reset) == TimedeltaDays(time_until_reset) < -1
ExpiredEarly(time_until_reset) == TimedeltaDays(time_until_reset) <= 0

Expired(time_until_reset) == TimedeltaDays(time_until_reset) < 0

\* `analysis_count >= analysis_limit`
LimitReachedBad(count, limit) == count > limit

LimitReached(count, limit) == count >= limit

LimitMessage(hours, minutes) ==
    "Daily limit reached. Reset in " \o ToString(hours) \o "h "
        \o ToString(minutes) \o "m"

\* AnalysisAgent.check_rate_limit at time t: the session state it leaves and
\* the (can_analyze, error_msg) it returns
check_rate_limit(s, t) ==
    LET time_until_reset == DAY - (t - s.last_analysis)
        hours == TimedeltaSeconds(time_until_reset) \div HOUR
        remainder == TimedeltaSeconds(time_until_reset) % HOUR
        minutes == remainder \div MINUTE
    IN IF Expired(time_until_reset)
       THEN [ss |-> Put(Put(s, "analysis_count", 0), "last_analysis", t),
             ret |-> <<TRUE, NoMessage>>]
       ELSE IF LimitReached(s.analysis_count, s.analysis_limit)
       THEN [ss |-> s, ret |-> <<FALSE, LimitMessage(hours, minutes)>>]
       ELSE [ss |-> s, ret |-> <<TRUE, NoMessage>>]

\* AnalysisAgent._preprocess_data: the four fields, "" where one is missing
_preprocess_dataBad(data) == data

_preprocess_data(data) ==
    [patient_name |-> Get(data, "patient_name", ""),
     age |-> Get(data, "age", ""),
     gender |-> Get(data, "gender", ""),
     report |-> Get(data, "report", <<>>)]

\* the count _update_analytics stores
CountAfterBad(count) == count + 2

CountAfter(count) == count + 1

\* the window start _update_analytics stores: datetime.now()
WindowStartAfterBad(s, t) == s.last_analysis

WindowStartAfter(s, t) == t

\* AnalysisAgent._update_analytics at time t
_update_analytics(s, result, t) ==
    LET s1 == Put(s, "analysis_count", CountAfter(s.analysis_count))
        s2 == Put(s1, "last_analysis", WindowStartAfter(s, t))
        model_used == Get(result, "model_used", "unknown")
        used == s2.models_used
    IN Put(s2, "models_used",
           IF Has(used, model_used)
           THEN Put(used, model_used, used[model_used] + 1)
           ELSE Put(used, model_used, 1))

key_indicators ==
    << <<"h","e","m","o","g","l","o","b","i","n">>,
       <<"g","l","u","c","o","s","e">>,
       <<"c","h","o","l","e","s","t","e","r","o","l">>,
       <<"t","r","i","g","l","y","c","e","r","i","d","e","s">>,
       <<"h","d","l">>,
       <<"l","d","l">>,
       <<"w","b","c">>,
       <<"r","b","c">>,
       <<"p","l","a","t","e","l","e","t">>,
       <<"c","r","e","a","t","i","n","i","n","e">> >>

\* f"{data.get('age', 'unknown')}-{data.get('gender', 'unknown')}"
PatientProfile(data) ==
    Get(data, "age", "unknown") \o "-" \o Get(data, "gender", "unknown")

\* pop(0) of a full list of snippets
EvictBad(stored) == SubSeq(stored, 1, Len(stored) - 1)

Evict(stored) == Tail(stored)

\* relevant_lines[0], the snippet stored
SnippetBad(relevant_lines) == relevant_lines[Len(relevant_lines)]

Snippet(relevant_lines) == relevant_lines[1]

\* indicator in analysis.lower()
InAnalysisBad(analysis, indicator) == TRUE

InAnalysis(analysis, indicator) == Contains(Lower(analysis), indicator)

\* one round of _update_knowledge_base's loop, for key_indicators[i]
KbStep(kb, i, data, analysis) ==
    LET indicator == key_indicators[i]
        report_text == Lower(data.report)
        patient_profile == PatientProfile(data)
    IN IF Contains(report_text, indicator) /\ InAnalysis(analysis, indicator)
       THEN LET kb1 == IF OHas(kb, indicator) THEN kb
                       ELSE OPut(kb, indicator, <<>>)
                profiles == OGet(kb1, indicator)
                profiles1 == IF OHas(profiles, patient_profile) THEN profiles
                             ELSE OPut(profiles, patient_profile, <<>>)
                lines == Split(analysis)
                relevant_lines ==
                    SelectSeq(lines, LAMBDA l : Contains(Lower(l), indicator))
                stored == OGet(profiles1, patient_profile)
                popped == IF Len(stored) >= 3 THEN Evict(stored) ELSE stored
            IN IF relevant_lines # <<>>
               THEN OPut(kb1, indicator,
                         OPut(profiles1, patient_profile,
                              Append(popped, Snippet(relevant_lines))))
               ELSE OPut(kb1, indicator, profiles1)
       ELSE kb

RECURSIVE KbLoop(_, _, _, _)
KbLoop(kb, i, data, analysis) ==
    IF i > Len(key_indicators) THEN kb
    ELSE KbLoop(KbStep(kb, i, data, analysis), i + 1, data, analysis)

\* _update_knowledge_base raises AttributeError at analysis.lower() when the
\* content is None and an indicator occurs in the report
KbRaises(data, analysis) ==
    /\ Has(data, "report")
    /\ analysis = NoneText
    /\ \E i \in 1..Len(key_indicators) :
           Contains(Lower(data.report), key_indicators[i])

\* AnalysisAgent._update_knowledge_base
_update_knowledge_base(s, data, analysis) ==
    IF ~Has(data, "report") THEN s
    ELSE Put(s, "knowledge_base", KbLoop(s.knowledge_base, 1, data, analysis))

\* the failure analyze_report returns when the rate-limit check refuses
DeniedResultBad(error_msg) == Failure("Rate limit exceeded")

DeniedResult(error_msg) == Failure(error_msg)

\* the chat_history argument: None, or a list of {role, content} messages
NoHistory == [given |-> FALSE, messages |-> <<>>]
History(messages) == [given |-> TRUE, messages |-> messages]
Msg(role, content) == [role |-> role, content |-> content]

\* bool(chat_history)
Truthy(chat_history) == chat_history.given /\ chat_history.messages # <<>>

RECURSIVE Join(_, _)
\* sep.join(items)
Join(items, sep) ==
    IF items = <<>> THEN <<>>
    ELSE IF Len(items) = 1 THEN items[1]
    ELSE items[1] \o sep \o Join(Tail(items), sep)

\* reversed(items)
Reversed(items) == [i \in 1..Len(items) |-> items[Len(items) + 1 - i]]

ELLIPSIS == <<".", ".", ".">>

ShortenBad(msg) ==
    IF Len(msg) > 200 THEN SubSeq(msg, 1, 200) \o ELLIPSIS ELSE msg

\* a message of more than 200 characters is cut to its first 197 and "..."
Shorten(msg) ==
    IF Len(msg) > 200 THEN SubSeq(msg, 1, 197) \o ELLIPSIS ELSE msg

\* f"User: {user_msg}\nAssistant: {ai_msg}"
SessionItem(user_msg, ai_msg) ==
    <<"U","s","e","r",":"," ">> \o user_msg \o <<NL>>
        \o <<"A","s","s","i","s","t","a","n","t",":"," ">> \o ai_msg

RECURSIVE SessionLoop(_, _, _)
\* the loop of _get_session_context; j is the position, counted from 1, of
\* the later message of the pair looked at (i + 1 of range(len - 1, 0, -2))
SessionLoop(messages, j, context_items) ==
    IF j < 2 THEN context_items
    ELSE IF messages[j - 1].role = "user" /\ messages[j].role = "assistant"
    THEN LET user_msg == Shorten(messages[j - 1].content)
             ai_msg == Shorten(messages[j].content)
             items == Append(context_items, SessionItem(user_msg, ai_msg))
         IN IF Len(items) >= 2 THEN items
            ELSE SessionLoop(messages, j - 2, items)
    ELSE SessionLoop(messages, j - 2, context_items)

\* the context_items of _get_session_context when its loop ends
SessionItems(chat_history) ==
    IF ~Truthy(chat_history) \/ Len(chat_history.messages) < 2 THEN <<>>
    ELSE SessionLoop(chat_history.messages, Len(chat_history.messages), <<>>)

\* AnalysisAgent._get_session_context
_get_session_context(chat_history) ==
    Join(Reversed(SessionItems(chat_history)), <<NL, NL>>)

SIMILAR_PROFILE == <<" ","(","s","i","m","i","l","a","r"," ","p","a","t","i","e","n","t"," ","p","r","o","f","i","l","e",")",":"," ">>
OTHER_PROFILE == <<" ","(","o","t","h","e","r"," ","p","a","t","i","e","n","t"," ","p","r","o","f","i","l","e",")",":"," ">>

\* f"- {indicator} ({which} patient profile): {insight}" for every insight
InsightItems(indicator, which, insights) ==
    [i \in 1..Len(insights) |-> <<"-", " ">> \o indicator \o which \o insights[i]]

RECURSIVE OtherItems(_, _, _, _)
\* the insights of the profiles other than patient_profile, from the k-th on
OtherItems(indicator, profiles, patient_profile, k) ==
    IF k > Len(profiles) THEN <<>>
    ELSE (IF profiles[k][1] # patient_profile
          THEN InsightItems(indicator, OTHER_PROFILE, profiles[k][2]) ELSE <<>>)
         \o OtherItems(indicator, profiles, patient_profile, k + 1)

\* if indicator in report_text
InReportBad(report_text, indicator) == TRUE

InReport(report_text, indicator) == Contains(report_text, indicator)

RECURSIVE KbItems(_, _, _, _)
\* the context items of the knowledge base's entries from the k-th on
KbItems(kb, report_text, patient_profile, k) ==
    IF k > Len(kb) THEN <<>>
    ELSE LET indicator == kb[k][1]
             profiles == kb[k][2]
         IN (IF InReport(report_text, indicator)
             THEN (IF OHas(profiles, patient_profile)
                   THEN InsightItems(indicator, SIMILAR_PROFILE,
                                     OGet(profiles, patient_profile))
                   ELSE <<>>)
                  \o OtherItems(indicator, profiles, patient_profile, 1)
             ELSE <<>>)
            \o KbItems(kb, report_text, patient_profile, k + 1)

\* context_items[:5] when there are more than 5
LimitItemsBad(context_items) == context_items

LimitItems(context_items) ==
    IF Len(context_items) > 5 THEN SubSeq(context_items, 1, 5)
    ELSE context_items

\* AnalysisAgent._get_knowledge_base_context
_get_knowledge_base_context(s, data) ==
    IF ~Has(s, "knowledge_base") \/ s.knowledge_base = <<>> THEN <<>>
    ELSE LET report_text == Lower(Get(data, "report", <<>>))
             patient_profile == PatientProfile(data)
             context_items ==
                 KbItems(s.knowledge_base, report_text, patient_profile, 1)
         IN Join(LimitItems(context_items), <<NL>>)

KB_HEADING == <<NL,NL,"#","#"," ","R","e","l","e","v","a","n","t"," ","L","e","a","r","n","i","n","g"," ","F","r","o","m"," ","P","r","e","v","i","o","u","s"," ","A","n","a","l","y","s","e","s",NL>>
SESSION_HEADING == <<NL,NL,"#","#"," ","C","u","r","r","e","n","t"," ","S","e","s","s","i","o","n"," ","H","i","s","t","o","r","y",NL>>

\* if context: enhanced_prompt += heading + context
AppendSectionBad(enhanced_prompt, heading, context) ==
    enhanced_prompt \o heading \o context

AppendSection(enhanced_prompt, heading, context) ==
    IF context # <<>> THEN enhanced_prompt \o heading \o context
    ELSE enhanced_prompt

\* AnalysisAgent._build_enhanced_prompt
_build_enhanced_prompt(s, system_prompt, data, chat_history) ==
    LET kb_context == IF Has(data, "report")
                      THEN _get_knowledge_base_context(s, data) ELSE <<>>
        with_kb == AppendSection(system_prompt, KB_HEADING, kb_context)
        session_context == IF Truthy(chat_history)
                           THEN _get_session_context(chat_history) ELSE <<>>
    IN AppendSection(with_kb, SESSION_HEADING, session_context)

\* the prompt analyze_report hands to the model
EnhancedPromptBad(s, system_prompt, data, chat_history) ==
    _build_enhanced_prompt(s, system_prompt, data, chat_history)

EnhancedPrompt(s, system_prompt, data, chat_history) ==
    IF Truthy(chat_history)
    THEN _build_enhanced_prompt(s, system_prompt, data, chat_history)
    ELSE system_prompt

AttributeError == [raised |-> "AttributeError"]

\* AnalysisAgent.analyze_report(data, system_prompt, chat_history=chat_history)
\* at time t. Yields the session state, the clock, what generate_analysis did
\* and the result, or the exception that leaves the call.
analyze_report(s, t, data, system_prompt, chat_history, orc, cl) ==
    LET checked == check_rate_limit(s, t)
    IN IF ~checked.ret[1]
       THEN [ss |-> checked.ss, t |-> t, events |-> <<>>, called |-> FALSE,
             result |-> DeniedResult(checked.ret[2])]
       ELSE
         LET processed_data == _preprocess_data(data)
             enhanced_prompt == EnhancedPrompt(checked.ss, system_prompt,
                                               processed_data, chat_history)
             gen == generate_analysis(processed_data, enhanced_prompt, 0,
                                      orc, cl, <<>>)
             result == gen.result
             \* every pause of generate_analysis takes 2 seconds of the clock
             t1 == t + 2 * Len(SelectSeq(gen.events, IsSleep))
         IN IF result.success
            THEN LET s1 == _update_analytics(checked.ss, result, t1)
                 IN IF KbRaises(processed_data, result.content)
                    THEN [ss |-> s1, t |-> t1, events |-> gen.events,
                          called |-> TRUE, result |-> AttributeError]
                    ELSE [ss |-> _update_knowledge_base(s1, processed_data,
                                                        result.content),
                          t |-> t1, events |-> gen.events, called |-> TRUE,
                          result |-> result]
            ELSE [ss |-> checked.ss, t |-> t1, events |-> gen.events,
                  called |-> TRUE, result |-> result]

----------------------------------------------------------------------------
(* agents/services.py *)

\* init_analysis_state: AnalysisAgent() when the session has none
init_analysis_state(s, t) ==
    IF Has(s, "analysis_agent") THEN s
    ELSE _init_state(Put(s, "analysis_agent", "AnalysisAgent"), t)

----------------------------------------------------------------------------
(* auth/session.py, auth/service.py *)

\* SessionManager.clear_session_state
clear_session_stateBad(s) ==
    [k \in DOMAIN s \cap {"session_initialized", "knowledge_base"} |-> s[k]]

clear_session_state(s) ==
    [k \in DOMAIN s \cap {"session_initialized"} |-> s[k]]

\* AuthService.sign_in: the old session is cleared, then the user stored
sign_in(s, ok) ==
    IF ok
    THEN Put(Put(clear_session_state(s), "auth_token", "token"), "user", "u1")
    ELSE clear_session_state(s)

\* SessionManager.is_authenticated
is_authenticated(s) == Has(s, "user")

----------------------------------------------------------------------------
(* One generate_analysis call, its inputs drawn by Init *)

InitGen ==
    /\ clients \in ClientSets
    /\ oracle \in GenOracles
    /\ gen_args \in [data : Datas, system_prompt : Prompts]
    /\ gen_events = <<>>
    /\ gen_result = NoResult
    /\ now = 0
    /\ ss = [session_initialized |-> TRUE]
    /\ op = [name |-> "none"]
    /\ succ_times = <<>>

\* model_manager.generate_analysis(data, system_prompt) runs to its return
GenerateCall ==
    /\ gen_result = NoResult
    /\ LET out == generate_analysis(gen_args.data, gen_args.system_prompt, 0,
                                    oracle, clients, <<>>)
       IN /\ gen_events' = out.events
          /\ gen_result' = out.result
    /\ UNCHANGED <<clients, oracle, gen_args, sessVars>>

NextGen == GenerateCall

SpecGen == InitGen /\ [][NextGen]_vars

----------------------------------------------------------------------------
(* One identity's session: logins, logouts, rate-limit checks and analyses.
   Time passes between the operations while page runs keep the session
   alive; the identity's analyses are remembered across its logouts. *)

\* the instants the clock is read at: the start, a day later to the second,
\* and one second past that
Times == {0, DAY, DAY + 1}

\* the provider answers the first requests as given and then times out
OracleOf(answers) ==
    [i \in 1..OracleLen |->
        IF i <= Len(answers) THEN answers[i] ELSE Raise(ErrTimeout)]

SessionOracles ==
    { OracleOf(<<Completion(<<[content |-> ANALYSIS_HDL]>>)>>),
      OracleOf(<<>>) }

SessionDatas == {DATA_CAL}

\* PROMPTS["comprehensive_analyst"], a text
COMPREHENSIVE_ANALYST == <<"A","n","a","l","y","s","e",".">>

Succeeded(result) == Has(result, "success") /\ result.success

\* the successes that are less than a day old at time t
Recent(times, t) == SelectSeq(times, LAMBDA x : x > t - DAY)

Init ==
    /\ clients = {}
    /\ oracle = OracleOf(<<>>)
    /\ gen_args = [data |-> DATA_CAL, system_prompt |-> COMPREHENSIVE_ANALYST]
    /\ gen_events = <<>>
    /\ gen_result = NoResult
    /\ now = 0
    /\ ss = [session_initialized |-> TRUE]
    /\ op = [name |-> "none"]
    /\ succ_times = <<>>

Tick(t) ==
    /\ t > now
    /\ now' = t
    /\ succ_times' = Recent(succ_times, t)
    /\ op' = [name |-> "tick"]
    /\ UNCHANGED <<genVars, ss>>

\* the login page: SessionManager.login with good or bad credentials
Login(ok) ==
    /\ ~is_authenticated(ss)
    /\ ss' = sign_in(ss, ok)
    /\ op' = [name |-> "login", ok |-> ok]
    /\ UNCHANGED <<genVars, now, succ_times>>

\* the sidebar's Logout button: SessionManager.logout
Logout ==
    /\ is_authenticated(ss)
    /\ ss' = clear_session_state(ss)
    /\ op' = [name |-> "logout"]
    /\ UNCHANGED <<genVars, now, succ_times>>

\* services.check_rate_limit()
CheckLimit ==
    /\ is_authenticated(ss)
    /\ \E cl \in IF Has(ss, "analysis_agent") THEN {clients} ELSE ClientSets :
         \E s0 \in {init_analysis_state(ss, now)} :
         \E checked \in {check_rate_limit(s0, now)} :
            /\ clients' = cl
            /\ ss' = checked.ss
            /\ op' = [name |-> "check", before |-> s0, t |-> now,
                      ret |-> checked.ret]
    /\ UNCHANGED <<oracle, gen_args, gen_events, gen_result, now, succ_times>>

\* all([patient_name, age, gender]) of the form's fields
FormComplete(data) ==
    /\ data.patient_name # ""
    /\ data.age \notin {"", "0"}
    /\ data.gender # ""

\* handle_form_submission: the form's completeness test, the rate-limit gate
\* (services.generate_analysis with check_only), the user message saved, then
\* services.generate_analysis(data, PROMPTS["comprehensive_analyst"]) `lapse`
\* seconds after the gate
Submit(data, orc, lapse) ==
    /\ is_authenticated(ss)
    /\ Len(succ_times) < MaxRecent
    /\ IF ~FormComplete(data)
       THEN /\ op' = [name |-> "submit", shown |-> "Please fill in all fields"]
            /\ UNCHANGED <<genVars, now, ss, succ_times>>
       ELSE
         \E cl \in IF Has(ss, "analysis_agent") THEN {clients} ELSE ClientSets :
           \E s0 \in {init_analysis_state(ss, now)} :
           \E gate \in {check_rate_limit(s0, now)} :
              /\ clients' = cl
              /\ IF ~gate.ret[1]
                 THEN /\ ss' = gate.ss
                      /\ op' = [name |-> "submit", before |-> s0, t |-> now,
                                shown |-> gate.ret[2]]
                      /\ UNCHANGED <<oracle, gen_args, gen_events, gen_result,
                                     now, succ_times>>
                 ELSE
                   \E tc \in {now + lapse} :
                   \E out \in {analyze_report(gate.ss, tc, data,
                                              COMPREHENSIVE_ANALYST, NoHistory,
                                              orc, cl)} :
                      /\ ss' = out.ss
                      /\ now' = out.t
                      /\ oracle' = orc
                      /\ gen_args' = [data |-> _preprocess_data(data),
                                      system_prompt |-> COMPREHENSIVE_ANALYST]
                      /\ gen_events' = out.events
                      /\ gen_result' = out.result
                      /\ op' = [name |-> "analyze", before |-> gate.ss,
                                t |-> tc, called |-> out.called,
                                result |-> out.result]
                      /\ succ_times' =
                            IF Succeeded(out.result)
                            THEN Append(succ_times, out.t)
                            ELSE succ_times

Next ==
    \/ \E t \in Times : Tick(t)
    \/ \E ok \in BOOLEAN : Login(ok)
    \/ Logout
    \/ CheckLimit
    \/ \E data \in SessionDatas, orc \in SessionOracles : Submit(data, orc, 0)

Spec == Init /\ [][Next]_vars

----------------------------------------------------------------------------
(* One operation on a usage state: Init draws the count, the age of the
   window and the model counters of a logged-in session, and one rate-limit
   check or one form submission runs on it. *)

\* now - last_analysis of the drawn states, in seconds
ElapsedSet ==
    {0, 1, 59, 60, 3599, 3600, 7200, 79200, 86399, DAY, DAY + 1, 90000,
     2 * DAY, 2 * DAY + 1}

UsageNow == 2 * DAY + 1

PRIMARY_USED == "groq/llama-3.3-70b-versatile"
SECONDARY_USED == "groq/llama-3-8b-8192"

\* models_used of a session whose window holds `count` analyses
UsedSets(count) ==
    { IF count = 0 THEN EmptyDict ELSE Put(EmptyDict, PRIMARY_USED, count),
      Put(Put(EmptyDict, PRIMARY_USED, count + 1), SECONDARY_USED, 3) }

UsageOracles ==
    { OracleOf(<<Completion(<<[content |-> ANALYSIS_HDL]>>)>>),
      OracleOf(<<Raise(ErrTimeout), Completion(<<[content |-> ANALYSIS_HDL]>>)>>),
      OracleOf(<<Raise(ErrRateLimit), Raise(ErrQuota), Completion(<<>>),
                 Completion(<<[content |-> ANALYSIS_HDL]>>)>>),
      OracleOf(<<Completion(<<[content |-> NoContent]>>)>>),
      OracleOf(<<>>) }

UsageDatas == {DATA_CAL, [DATA_CAL EXCEPT !.patient_name = ""]}

\* the seconds save_chat_message takes between the form's rate-limit gate and
\* the analysis call
Lapses == {0, 1}

InitUsage ==
    /\ clients = {"groq"}
    /\ oracle = OracleOf(<<>>)
    /\ gen_args = [data |-> DATA_CAL, system_prompt |-> COMPREHENSIVE_ANALYST]
    /\ gen_events = <<>>
    /\ gen_result = NoResult
    /\ now = UsageNow
    /\ \E count \in 0..ANALYSIS_LIMIT, elapsed \in ElapsedSet :
       \E used \in UsedSets(count) :
          ss = [session_initialized |-> TRUE, auth_token |-> "token",
                user |-> "u1", analysis_agent |-> "AnalysisAgent",
                analysis_count |-> count, last_analysis |-> UsageNow - elapsed,
                analysis_limit |-> ANALYSIS_LIMIT, models_used |-> used,
                knowledge_base |-> <<>>]
    /\ op = [name |-> "none"]
    /\ succ_times = <<>>

\* services.check_rate_limit() on the drawn state
UsageCheck == op.name = "none" /\ CheckLimit

\* one form submission on the drawn state
UsageSubmit ==
    /\ op.name = "none"
    /\ \E data \in UsageDatas, orc \in UsageOracles, lapse \in Lapses :
          Submit(data, orc, lapse)

NextUsage == UsageCheck \/ UsageSubmit

SpecUsage == InitUsage /\ [][NextUsage]_vars

----------------------------------------------------------------------------
(* One login in which the identity acts only while less than 24 hours have
   passed since its previous successful analysis; succ_times keeps every
   success of the login. *)

AnchorStep == 23 * HOUR

AnchorEnd == 2 * AnchorStep

\* less than 24 hours have passed since the previous successful analysis
Anchored ==
    IF succ_times = <<>> THEN TRUE
    ELSE now - succ_times[Len(succ_times)] < DAY

InitAnchor ==
    /\ clients = {}
    /\ oracle = OracleOf(<<>>)
    /\ gen_args = [data |-> DATA_CAL, system_prompt |-> COMPREHENSIVE_ANALYST]
    /\ gen_events = <<>>
    /\ gen_result = NoResult
    /\ now = 0
    /\ ss = sign_in([session_initialized |-> TRUE], TRUE)
    /\ op = [name |-> "login", ok |-> TRUE]
    /\ succ_times = <<>>

AnchorWait ==
    /\ now + AnchorStep <= AnchorEnd
    /\ now' = now + AnchorStep
    /\ op' = [name |-> "tick"]
    /\ UNCHANGED <<genVars, ss, succ_times>>

AnchorCheck == Anchored /\ CheckLimit

AnchorSubmit ==
    /\ Anchored
    /\ \E data \in SessionDatas, orc \in SessionOracles : Submit(data, orc, 0)

NextAnchor == AnchorWait \/ AnchorCheck \/ AnchorSubmit

SpecAnchor == InitAnchor /\ [][NextAnchor]_vars

----------------------------------------------------------------------------
(* A session that has used 14 of its 15 analyses, the last of them 2 hours
   ago: checks, submissions and the clock from there on. *)

LastBefore == 2 * HOUR

\* the instants the clock is read at after the start
LastTimes == {LastBefore + 1, LastBefore + MINUTE, 2 * LastBefore}

InitLast ==
    /\ clients = {"groq"}
    /\ oracle = OracleOf(<<>>)
    /\ gen_args = [data |-> DATA_CAL, system_prompt |-> COMPREHENSIVE_ANALYST]
    /\ gen_events = <<>>
    /\ gen_result = NoResult
    /\ now = LastBefore
    /\ ss = [session_initialized |-> TRUE, auth_token |-> "token",
             user |-> "u1", analysis_agent |-> "AnalysisAgent",
             analysis_count |-> ANALYSIS_LIMIT - 1, last_analysis |-> 0,
             analysis_limit |-> ANALYSIS_LIMIT,
             models_used |-> Put(EmptyDict, PRIMARY_USED, ANALYSIS_LIMIT - 1),
             knowledge_base |-> <<>>]
    /\ op = [name |-> "none"]
    /\ succ_times = <<>>

\* the provider's answers with a text content, or none at all
LastOracles ==
    {orc \in UsageOracles :
        \A i \in 1..OracleLen :
            orc[i].kind = "completion" =>
                \A c \in 1..Len(orc[i].choices) :
                    orc[i].choices[c].content # NoContent}

\* the form is submitted at the start or at one of the instants of LastTimes
LastSubmit ==
    /\ now \in {LastBefore} \cup LastTimes
    /\ \E data \in UsageDatas, orc \in LastOracles, lapse \in Lapses :
          Submit(data, orc, lapse)

NextLast ==
    \/ \E t \in LastTimes : Tick(t)
    \/ CheckLimit
    \/ LastSubmit

SpecLast == InitLast /\ [][NextLast]_vars

----------------------------------------------------------------------------
(* One analyze_report call on the session's agent: Init draws the usage
   state and the knowledge base, the call draws the data, the chat history
   and the provider's answers. *)

AgentCounts == {0, ANALYSIS_LIMIT - 1, ANALYSIS_LIMIT}

AgentElapsed == {0, HOUR, DAY, DAY + 1}

AgentNow == DAY + 1

INSIGHT_HDL == <<"H","D","L"," ","f","i","n","e">>

\* knowledge bases earlier analyses have left
KbSets ==
    { <<>>,
      << <<key_indicators[5],
           << <<"52-Male", <<INSIGHT_HDL>>>>,
              <<"30-Female", <<INSIGHT_HDL, INSIGHT_HDL>>>> >> >> >> }

\* data dicts: complete, without age and gender, without gender, without
\* report
AgentDatas ==
    { DATA_CAL,
      [patient_name |-> "Cal", report |-> REPORT_HDL],
      [patient_name |-> "Cal", age |-> "52", report |-> REPORT_HDL],
      [patient_name |-> "Cal", age |-> "52", gender |-> "Male"] }

USER_MSG == <<"H","D","L","?">>
AI_MSG == <<"H","D","L"," ","l","o","w">>

Histories ==
    { NoHistory, History(<<>>),
      History(<<Msg("user", USER_MSG), Msg("assistant", AI_MSG)>>),
      History(<<Msg("user", USER_MSG), Msg("assistant", AI_MSG),
                Msg("user", USER_MSG)>>) }

InitAgent ==
    /\ clients = {"groq"}
    /\ oracle = OracleOf(<<>>)
    /\ gen_args = [data |-> DATA_CAL, system_prompt |-> COMPREHENSIVE_ANALYST]
    /\ gen_events = <<>>
    /\ gen_result = NoResult
    /\ now = AgentNow
    /\ \E count \in AgentCounts, elapsed \in AgentElapsed, kb \in KbSets :
          ss = [session_initialized |-> TRUE, auth_token |-> "token",
                user |-> "u1", analysis_agent |-> "AnalysisAgent",
                analysis_count |-> count, last_analysis |-> AgentNow - elapsed,
                analysis_limit |-> ANALYSIS_LIMIT,
                models_used |-> Put(EmptyDict, PRIMARY_USED, count + 1),
                knowledge_base |-> kb]
    /\ op = [name |-> "none"]
    /\ succ_times = <<>>

\* st.session_state.analysis_agent.analyze_report(data, system_prompt,
\* chat_history=chat_history)
Analyze(data, orc, chat_history) ==
    /\ Has(ss, "analysis_agent")
    /\ \E out \in {analyze_report(ss, now, data, COMPREHENSIVE_ANALYST,
                                  chat_history, orc, clients)} :
          /\ ss' = out.ss
          /\ now' = out.t
          /\ oracle' = orc
          /\ gen_args' = [data |-> _preprocess_data(data),
                          system_prompt |-> COMPREHENSIVE_ANALYST]
          /\ gen_events' = out.events
          /\ gen_result' = out.result
          /\ op' = [name |-> "analyze_report", before |-> ss, t |-> now,
                    data |-> data, chat_history |-> chat_history,
                    called |-> out.called, result |-> out.result]
          /\ succ_times' = IF Succeeded(out.result)
                           THEN Append(succ_times, out.t) ELSE succ_times
    /\ UNCHANGED clients

NextAgent ==
    /\ op.name = "none"
    /\ \E data \in AgentDatas, orc \in UsageOracles, h \in Histories :
          Analyze(data, orc, h)

SpecAgent == InitAgent /\ [][NextAgent]_vars

----------------------------------------------------------------------------
(* The knowledge base under a sequence of _update_knowledge_base calls, each
   with the data and the analysis text of one successful generation; op keeps
   the calls made. *)

MaxUpdates == 4

DATA_DEE ==
    [patient_name |-> "Dee", age |-> "30", gender |-> "Female",
     report |-> REPORT_HDL]

ANALYSIS_UP == <<"o","k",NL,"h","d","l"," ","u","p",NL,"H","D","L"," ","x">>
ANALYSIS_FINE == <<"f","i","n","e">>
\* the indicator of the report, broken by a line end
ANALYSIS_BROKEN == <<"h","d",NL,"l"," ","u","p">>

\* (data, analysis) of the calls
KbUpdates ==
    { <<DATA_CAL, ANALYSIS_HDL>>, <<DATA_CAL, ANALYSIS_UP>>,
      <<DATA_CAL, ANALYSIS_FINE>>, <<DATA_CAL, ANALYSIS_BROKEN>>,
      <<DATA_DEE, ANALYSIS_HDL>>,
      <<DATA_ANN, ANALYSIS_HEMO>>, <<DATA_BOB, ANALYSIS_GLUC>> }

InitKb ==
    /\ clients = {"groq"}
    /\ oracle = OracleOf(<<>>)
    /\ gen_args = [data |-> DATA_CAL, system_prompt |-> COMPREHENSIVE_ANALYST]
    /\ gen_events = <<>>
    /\ gen_result = NoResult
    /\ now = 0
    /\ ss = _init_state([session_initialized |-> TRUE, auth_token |-> "token",
                         user |-> "u1", analysis_agent |-> "AnalysisAgent"], 0)
    /\ op = [name |-> "update", updates |-> <<>>, before |-> <<>>]
    /\ succ_times = <<>>

\* self._update_knowledge_base(processed_data, result["content"])
KbUpdate(data, analysis) ==
    /\ Len(op.updates) < MaxUpdates
    /\ ss' = _update_knowledge_base(ss, _preprocess_data(data), analysis)
    /\ op' = [name |-> "update",
              updates |-> Append(op.updates, <<data, analysis>>),
              before |-> ss.knowledge_base]
    /\ UNCHANGED <<genVars, now, succ_times>>

NextKb == \E u \in KbUpdates : KbUpdate(u[1], u[2])

SpecKb == InitKb /\ [][NextKb]_vars

----------------------------------------------------------------------------
(* _get_session_context on a chat history: Init draws the history, the roles
   of its messages and their lengths; the call leaves its text in op. *)

MaxHistory == 7

Roles == {"user", "assistant"}

\* the k-th message of a history, `len` characters long: its first character
\* is k, the characters after the 197th differ from those before
Content(k, len) ==
    [i \in 1..len |->
        IF i = 1 THEN ToString(k) ELSE IF i > 197 THEN "y" ELSE "x"]

\* the lengths of the messages of a history, by position
LengthPatterns ==
    { [k \in 1..MaxHistory |-> 2],
      [k \in 1..MaxHistory |-> IF k % 2 = 1 THEN 200 ELSE 201],
      [k \in 1..MaxHistory |-> IF k % 3 = 0 THEN 199 ELSE 250] }

InitRecall ==
    /\ clients = {"groq"}
    /\ oracle = OracleOf(<<>>)
    /\ gen_events = <<>>
    /\ gen_result = NoResult
    /\ now = 0
    /\ ss = [session_initialized |-> TRUE]
    /\ op = [name |-> "none"]
    /\ succ_times = <<>>
    /\ \E n \in 0..MaxHistory, lens \in LengthPatterns :
       \E roles \in [1..n -> Roles] :
          gen_args = [chat_history |->
                         History([k \in 1..n |->
                                     Msg(roles[k], Content(k, lens[k]))])]

\* self._get_session_context(chat_history)
Recall ==
    /\ op.name = "none"
    /\ op' = [name |-> "recall",
              text |-> _get_session_context(gen_args.chat_history)]
    /\ UNCHANGED <<genVars, now, ss, succ_times>>

NextRecall == Recall

SpecRecall == InitRecall /\ [][NextRecall]_vars

----------------------------------------------------------------------------
(* _build_enhanced_prompt on a knowledge base, a report and a chat history,
   all drawn by Init; the call leaves the prompt and the two contexts it
   built in op. *)

PromptIndicators == {key_indicators[5], key_indicators[6]}

PromptProfiles == {"52-Male", "30-Female"}

\* the sequences without repetition of at most 2 elements of a set
Orders(S) ==
    {<<>>} \cup {<<a>> : a \in S}
        \cup {p \in {<<a, b>> : a \in S, b \in S} : p[1] # p[2]}

\* the i-th snippet stored for an indicator and a profile key
SnippetOf(indicator, profile, i) ==
    <<"s", indicator[1], IF profile = "52-Male" THEN "m" ELSE "f", ToString(i)>>

\* the knowledge base with the indicators and, under each, the profile keys
\* in the given orders, cnt[profile] snippets under each key
KbOf(indicators, profiles, cnt) ==
    [k \in 1..Len(indicators) |->
        <<indicators[k],
          [j \in 1..Len(profiles) |->
              <<profiles[j],
                [i \in 1..cnt[profiles[j]] |->
                    SnippetOf(indicators[k], profiles[j], i)]>>]>>]

REPORT_LIPIDS == <<"h","d","l"," ","L","D","L">>

\* processed data: a report that names one indicator or both, of a patient
\* whose profile key is in the knowledge base or not
PromptDatas ==
    { [patient_name |-> "Cal", age |-> a, gender |-> "Male", report |-> r] :
        a \in {"52", "41"}, r \in {REPORT_HDL, REPORT_LIPIDS} }

InitPrompt ==
    /\ clients = {"groq"}
    /\ oracle = OracleOf(<<>>)
    /\ gen_events = <<>>
    /\ gen_result = NoResult
    /\ now = 0
    /\ op = [name |-> "none"]
    /\ succ_times = <<>>
    /\ \E indicators \in Orders(PromptIndicators),
          profiles \in Orders(PromptProfiles) \ {<<>>},
          cnt \in [PromptProfiles -> {1, 3}] :
          ss = [session_initialized |-> TRUE, auth_token |-> "token",
                user |-> "u1", analysis_agent |-> "AnalysisAgent",
                analysis_count |-> 0, last_analysis |-> 0,
                analysis_limit |-> ANALYSIS_LIMIT, models_used |-> EmptyDict,
                knowledge_base |-> KbOf(indicators, profiles, cnt)]
    /\ \E data \in PromptDatas, h \in Histories :
          gen_args = [data |-> data, system_prompt |-> COMPREHENSIVE_ANALYST,
                      chat_history |-> h]

\* self._build_enhanced_prompt(system_prompt, processed_data, chat_history)
Compose ==
    /\ op.name = "none"
    /\ op' = [name |-> "compose",
              knowledge |-> _get_knowledge_base_context(ss, gen_args.data),
              session |-> IF Truthy(gen_args.chat_history)
                          THEN _get_session_context(gen_args.chat_history)
                          ELSE <<>>,
              prompt |-> _build_enhanced_prompt(ss, gen_args.system_prompt,
                                                gen_args.data,
                                                gen_args.chat_history)]
    /\ UNCHANGED <<genVars, now, ss, succ_times>>

NextPrompt == Compose

SpecPrompt == InitPrompt /\ [][NextPrompt]_vars

----------------------------------------------------------------------------
(* analyze_report under every sequence of answers of the four tiers, in a
   session below its limit and in one at it *)

ErrCounts == {0, ANALYSIS_LIMIT}

ErrOutcomes ==
    {Raise(t) : t \in {ErrTimeout, ErrRateLimit, ErrQuota, ErrRateHyphen}}
    \cup { Completion(<<>>), Completion(<<[content |-> NoContent]>>),
           Completion(<<[content |-> ANALYSIS_HDL]>>) }

\* one answer for every tier
ErrOracles ==
    {OracleOf(answers) :
        answers \in [1..Cardinality(ModelTier) -> ErrOutcomes]}

InitErr ==
    /\ clients = {"groq"}
    /\ oracle = OracleOf(<<>>)
    /\ gen_args = [data |-> DATA_CAL, system_prompt |-> COMPREHENSIVE_ANALYST]
    /\ gen_events = <<>>
    /\ gen_result = NoResult
    /\ now = AgentNow
    /\ \E count \in ErrCounts :
          ss = [session_initialized |-> TRUE, auth_token |-> "token",
                user |-> "u1", analysis_agent |-> "AnalysisAgent",
                analysis_count |-> count, last_analysis |-> AgentNow - HOUR,
                analysis_limit |-> ANALYSIS_LIMIT,
                models_used |-> EmptyDict, knowledge_base |-> <<>>]
    /\ op = [name |-> "none"]
    /\ succ_times = <<>>

NextErr ==
    /\ op.name = "none"
    /\ \E orc \in ErrOracles : Analyze(DATA_CAL, orc, NoHistory)

SpecErr == InitErr /\ [][NextErr]_vars

----------------------------------------------------------------------------
(* Two analyze_report calls of one session that run at the same time, each
   statement that reads or writes st.session_state a step of its own.
   gen_args holds, for each call, where it is and its local variables. *)

Pipelines == {1, 2}

RaceCounts == {ANALYSIS_LIMIT - 1, ANALYSIS_LIMIT}

RaceStored == {0, 2, 3}

\* a knowledge base with n snippets stored for hdl and the profile 52-Male
RaceKb(n) ==
    IF n = 0 THEN <<>>
    ELSE KbOf(<<key_indicators[5]>>, <<"52-Male">>, [p \in {"52-Male"} |-> n])

\* the local variables of a call that has not started
Frame == [pc |-> "check", result |-> NoResult, count |-> 0, i |-> 0]

InitRace ==
    /\ clients = {"groq"}
    /\ oracle = OracleOf(<<>>)
    /\ gen_args = [p \in Pipelines |-> Frame]
    /\ gen_events = <<>>
    /\ gen_result = NoResult
    /\ now = AgentNow
    /\ \E count \in RaceCounts, n \in RaceStored :
          ss = [session_initialized |-> TRUE, auth_token |-> "token",
                user |-> "u1", analysis_agent |-> "AnalysisAgent",
                analysis_count |-> count, last_analysis |-> AgentNow - HOUR,
                analysis_limit |-> ANALYSIS_LIMIT,
                models_used |-> EmptyDict, knowledge_base |-> RaceKb(n)]
    /\ op = [name |-> "race", before |-> ss]
    /\ succ_times = <<>>

\* the call p moves to pc with some of its local variables set
Goto(p, frame) == gen_args' = [gen_args EXCEPT ![p] = frame]

\* the indicators from the i-th on that _update_knowledge_base stores a
\* snippet for: they occur in the report and in a line of the analysis
Relevant(i, data, analysis) ==
    {k \in i..Len(key_indicators) :
        /\ Contains(Lower(data.report), key_indicators[k])
        /\ Contains(Lower(analysis), key_indicators[k])}

\* can_analyze, error_msg = self.check_rate_limit()
RaceCheck(p) ==
    /\ gen_args[p].pc = "check"
    /\ \E checked \in {check_rate_limit(ss, now)} :
          /\ ss' = checked.ss
          /\ IF checked.ret[1]
             THEN Goto(p, [gen_args[p] EXCEPT !.pc = "generate"])
             ELSE Goto(p, [gen_args[p] EXCEPT
                              !.pc = "done",
                              !.result = DeniedResult(checked.ret[2])])
    /\ UNCHANGED <<clients, oracle, gen_events, gen_result, now, op, succ_times>>

\* result = self.model_manager.generate_analysis(processed_data, enhanced_prompt)
RaceGenerate(p) ==
    /\ gen_args[p].pc = "generate"
    /\ \E orc \in SessionOracles :
          \E gen \in {generate_analysis(_preprocess_data(DATA_CAL),
                                        COMPREHENSIVE_ANALYST, 0, orc,
                                        clients, <<>>)} :
             Goto(p, [gen_args[p] EXCEPT
                         !.pc = IF gen.result.success THEN "read_count"
                                ELSE "done",
                         !.result = gen.result])
    /\ UNCHANGED <<clients, oracle, gen_events, gen_result, now, ss, op, succ_times>>

\* st.session_state.analysis_count += 1: the read
RaceReadCount(p) ==
    /\ gen_args[p].pc = "read_count"
    /\ Goto(p, [gen_args[p] EXCEPT !.pc = "write_count",
                                   !.count = ss.analysis_count])
    /\ UNCHANGED <<clients, oracle, gen_events, gen_result, now, ss, op, succ_times>>

\* st.session_state.analysis_count += 1: the write, and the rest of
\* _update_analytics
RaceWriteCount(p) ==
    /\ gen_args[p].pc = "write_count"
    /\ ss' = Put(_update_analytics(ss, gen_args[p].result, now),
                 "analysis_count", gen_args[p].count + 1)
    /\ Goto(p, [gen_args[p] EXCEPT !.pc = "kb_enter", !.i = 1])
    /\ UNCHANGED <<clients, oracle, gen_events, gen_result, now, op, succ_times>>

\* the loop of _update_knowledge_base up to the next indicator it stores a
\* snippet for, and the two `not in` tests that make room for it
RaceKbEnter(p) ==
    /\ gen_args[p].pc = "kb_enter"
    /\ \E data \in {_preprocess_data(DATA_CAL)},
          todo \in {Relevant(gen_args[p].i, _preprocess_data(DATA_CAL),
                             gen_args[p].result.content)} :
          IF todo = {}
          THEN /\ Goto(p, [gen_args[p] EXCEPT !.pc = "done"])
               /\ ss' = ss
          ELSE \E k \in {CHOOSE m \in todo : \A n \in todo : m <= n} :
                 \E kb1 \in {IF OHas(ss.knowledge_base, key_indicators[k])
                             THEN ss.knowledge_base
                             ELSE OPut(ss.knowledge_base, key_indicators[k],
                                       <<>>)} :
                    /\ ss' = Put(ss, "knowledge_base",
                                 IF OHas(OGet(kb1, key_indicators[k]),
                                         PatientProfile(data))
                                 THEN kb1
                                 ELSE OPut(kb1, key_indicators[k],
                                           OPut(OGet(kb1, key_indicators[k]),
                                                PatientProfile(data), <<>>)))
                    /\ Goto(p, [gen_args[p] EXCEPT !.pc = "kb_test", !.i = k])
    /\ UNCHANGED <<clients, oracle, gen_events, gen_result, now, op, succ_times>>

\* the snippets stored for the indicator and the profile of the call p
RaceList(p) ==
    OGet(OGet(ss.knowledge_base, key_indicators[gen_args[p].i]),
         PatientProfile(_preprocess_data(DATA_CAL)))

\* the knowledge base with that list replaced
RaceListPut(p, stored) ==
    Put(ss, "knowledge_base",
        OPut(ss.knowledge_base, key_indicators[gen_args[p].i],
             OPut(OGet(ss.knowledge_base, key_indicators[gen_args[p].i]),
                  PatientProfile(_preprocess_data(DATA_CAL)), stored)))

\* if len(st.session_state.knowledge_base[indicator][patient_profile]) >= 3
RaceKbTest(p) ==
    /\ gen_args[p].pc = "kb_test"
    /\ Goto(p, [gen_args[p] EXCEPT
                   !.pc = IF Len(RaceList(p)) >= 3 THEN "kb_pop"
                          ELSE "kb_append"])
    /\ UNCHANGED <<clients, oracle, gen_events, gen_result, now, ss, op, succ_times>>

\* st.session_state.knowledge_base[indicator][patient_profile].pop(0)
RaceKbPop(p) ==
    /\ gen_args[p].pc = "kb_pop"
    /\ ss' = RaceListPut(p, Evict(RaceList(p)))
    /\ Goto(p, [gen_args[p] EXCEPT !.pc = "kb_append"])
    /\ UNCHANGED <<clients, oracle, gen_events, gen_result, now, op, succ_times>>

\* st.session_state.knowledge_base[indicator][patient_profile].append(
\* relevant_lines[0]), then the next round of the loop
RaceKbAppend(p) ==
    /\ gen_args[p].pc = "kb_append"
    /\ ss' = RaceListPut(p,
                 Append(RaceList(p),
                        Snippet(SelectSeq(Split(gen_args[p].result.content),
                            LAMBDA l : Contains(Lower(l),
                                           key_indicators[gen_args[p].i])))))
    /\ Goto(p, [gen_args[p] EXCEPT !.pc = "kb_enter", !.i = @ + 1])
    /\ UNCHANGED <<clients, oracle, gen_events, gen_result, now, op, succ_times>>

NextRace ==
    \/ \E p \in Pipelines : RaceCheck(p)
    \/ \E p \in Pipelines : RaceGenerate(p)
    \/ \E p \in Pipelines : RaceReadCount(p)
    \/ \E p \in Pipelines : RaceWriteCount(p)
    \/ \E p \in Pipelines : RaceKbEnter(p)
    \/ \E p \in Pipelines : RaceKbTest(p)
    \/ \E p \in Pipelines : RaceKbPop(p)
    \/ \E p \in Pipelines : RaceKbAppend(p)

SpecRace == InitRace /\ [][NextRace]_vars

----------------------------------------------------------------------------
(* analyze_report on a data dict and, from the same session state and with
   the same answers of the provider, on that dict with further keys *)

NOTES_GLUCOSE == <<"g","l","u","c","o","s","e"," ","h","i","g","h">>

\* keys a caller may hand over besides the four of the form
Extras ==
    { [email |-> "cal@example.org"],
      [notes |-> NOTES_GLUCOSE, insurance_id |-> "X-1"],
      [report_text |-> REPORT_GLUC, patientName |-> "Bob"] }

\* the dict with the further keys
Extended(data, extra) ==
    [k \in DOMAIN data \cup DOMAIN extra |->
        IF k \in DOMAIN data THEN data[k] ELSE extra[k]]

AnalyzeBoth(data, extra, orc, chat_history) ==
    /\ Has(ss, "analysis_agent")
    /\ \E out \in {analyze_report(ss, now, data, COMPREHENSIVE_ANALYST,
                                  chat_history, orc, clients)},
          twin \in {analyze_report(ss, now, Extended(data, extra),
                                   COMPREHENSIVE_ANALYST, chat_history, orc,
                                   clients)} :
          /\ ss' = out.ss
          /\ now' = out.t
          /\ oracle' = orc
          /\ gen_args' = [data |-> _preprocess_data(data),
                          system_prompt |-> COMPREHENSIVE_ANALYST]
          /\ gen_events' = out.events
          /\ gen_result' = out.result
          /\ op' = [name |-> "both", before |-> ss, t |-> now,
                    data |-> data, extra |-> extra,
                    chat_history |-> chat_history,
                    called |-> out.called, result |-> out.result,
                    twin |-> twin]
          /\ succ_times' = IF Succeeded(out.result)
                           THEN Append(succ_times, out.t) ELSE succ_times
    /\ UNCHANGED clients

NextTwin ==
    /\ op.name = "none"
    /\ \E data \in AgentDatas, extra \in Extras, orc \in UsageOracles,
          h \in Histories :
          AnalyzeBoth(data, extra, orc, h)

SpecTwin == InitAgent /\ [][NextTwin]_vars

----------------------------------------------------------------------------
(* One analyze_report call step by step: the check, each round of
   generate_analysis, each answer of the provider, each pause, and the
   updates after the generation. gen_args holds where the call is and
   generate_analysis's retry_count; oracle collects the answers. *)

LiveFrame(pc, retry_count) ==
    [pc |-> pc, retry_count |-> retry_count,
     data |-> _preprocess_data(DATA_CAL),
     system_prompt |-> COMPREHENSIVE_ANALYST]

InitLive ==
    /\ clients \in ClientSets
    /\ oracle = <<>>
    /\ gen_args = LiveFrame("check", 0)
    /\ gen_events = <<>>
    /\ gen_result = NoResult
    /\ now = AgentNow
    /\ \E count \in ErrCounts :
          ss = [session_initialized |-> TRUE, auth_token |-> "token",
                user |-> "u1", analysis_agent |-> "AnalysisAgent",
                analysis_count |-> count, last_analysis |-> AgentNow - HOUR,
                analysis_limit |-> ANALYSIS_LIMIT,
                models_used |-> EmptyDict, knowledge_base |-> <<>>]
    /\ op = [name |-> "live", before |-> ss]
    /\ succ_times = <<>>

\* analyze_report up to the call of generate_analysis
LiveCheck ==
    /\ gen_args.pc = "check"
    /\ \E checked \in {check_rate_limit(ss, now)} :
          /\ ss' = checked.ss
          /\ IF checked.ret[1]
             THEN /\ gen_args' = LiveFrame("round", 0)
                  /\ gen_result' = gen_result
             ELSE /\ gen_args' = LiveFrame("done", 0)
                  /\ gen_result' = DeniedResult(checked.ret[2])
    /\ UNCHANGED <<clients, oracle, gen_events, now, op, succ_times>>

\* generate_analysis from its first line to its return, its recursive call
\* without a client, or its request
LiveRound ==
    /\ gen_args.pc = "round"
    /\ \E retry_count \in {gen_args.retry_count} :
          IF Exhausted(retry_count)
          THEN /\ gen_result' = ExhaustedResult(gen_events)
               /\ gen_args' = LiveFrame("returned", retry_count)
               /\ gen_events' = gen_events
          ELSE \E model_config \in {MODEL_CONFIG[TierOf(retry_count)]} :
                 IF NoClient(model_config.provider, clients)
                 THEN /\ gen_events' =
                            Append(gen_events,
                                LogLine("error", "no client",
                                        model_config.provider, <<>>))
                      /\ gen_args' = LiveFrame("round", NextRetry(retry_count))
                      /\ gen_result' = gen_result
                 ELSE /\ gen_events' = gen_events \o
                            << LogLine("info", "attempting",
                                       model_config.model, <<>>),
                               Request(model_config.model,
                                       gen_args.system_prompt, gen_args.data,
                                       model_config) >>
                      /\ gen_args' = LiveFrame("request", retry_count)
                      /\ gen_result' = gen_result
    /\ UNCHANGED <<clients, oracle, now, ss, op, succ_times>>

\* the provider returns or raises; generate_analysis returns the success or
\* logs the failure
LiveAnswer ==
    /\ gen_args.pc = "request"
    /\ \E answer \in ErrOutcomes,
          model_config \in {MODEL_CONFIG[TierOf(gen_args.retry_count)]} :
          /\ oracle' = Append(oracle, answer)
          /\ IF answer.kind = "completion" /\ Len(answer.choices) > 0
             THEN /\ gen_result' =
                        Success(answer.choices[1].content,
                                ModelUsed(model_config.provider,
                                          model_config.model))
                  /\ gen_args' = LiveFrame("returned", gen_args.retry_count)
                  /\ gen_events' = gen_events
             ELSE \E error_message \in
                        {Lower(IF answer.kind = "raise" THEN answer.text
                               ELSE ErrIndex)} :
                    /\ gen_events' =
                          Append(gen_events,
                              LogLine("warning", "failed", model_config.model,
                                      error_message))
                    /\ gen_args' =
                          IF IsRateLimitError(error_message)
                          THEN LiveFrame("sleep", gen_args.retry_count)
                          ELSE LiveFrame("round",
                                         NextRetry(gen_args.retry_count))
                    /\ gen_result' = gen_result
    /\ UNCHANGED <<clients, now, ss, op, succ_times>>

\* time.sleep(2), then the recursive call
LiveSleep ==
    /\ gen_args.pc = "sleep"
    /\ gen_events' = Append(gen_events, SleepEv)
    /\ now' = now + SleepEv.seconds
    /\ gen_args' = LiveFrame("round", NextRetry(gen_args.retry_count))
    /\ UNCHANGED <<clients, oracle, gen_result, ss, op, succ_times>>

\* analyze_report after generate_analysis has returned
LiveFinish ==
    /\ gen_args.pc = "returned"
    /\ gen_args' = LiveFrame("done", gen_args.retry_count)
    /\ IF gen_result.success
       THEN \E s1 \in {_update_analytics(ss, gen_result, now)} :
              IF KbRaises(gen_args.data, gen_result.content)
              THEN /\ ss' = s1
                   /\ gen_result' = AttributeError
                   /\ succ_times' = succ_times
              ELSE /\ ss' = _update_knowledge_base(s1, gen_args.data,
                                                   gen_result.content)
                   /\ gen_result' = gen_result
                   /\ succ_times' = Append(succ_times, now)
       ELSE UNCHANGED <<ss, gen_result, succ_times>>
    /\ UNCHANGED <<clients, oracle, gen_events, now, op>>

NextLive ==
    \/ LiveCheck
    \/ LiveRound
    \/ LiveAnswer
    \/ LiveSleep
    \/ LiveFinish

\* the call keeps running, and the provider answers every request
SpecLive == InitLive /\ [][NextLive]_vars /\ WF_vars(NextLive)

----------------------------------------------------------------------------
(* Requests without report text: analyze_report, and _update_knowledge_base
   and _build_enhanced_prompt called with the dict as it is *)

\* data without the report key, with an empty report, and with a report
BlankDatas ==
    { [patient_name |-> "Cal", age |-> "52", gender |-> "Male"],
      [patient_name |-> "Cal", age |-> "52", gender |-> "Male",
       report |-> <<>>],
      DATA_CAL }

\* self._update_knowledge_base(data, analysis) and
\* self._build_enhanced_prompt(system_prompt, data, chat_history)
Direct(data, analysis, chat_history) ==
    /\ op' = [name |-> "direct", before |-> ss, data |-> data,
              chat_history |-> chat_history,
              prompt |-> _build_enhanced_prompt(ss, COMPREHENSIVE_ANALYST,
                                                data, chat_history)]
    /\ ss' = _update_knowledge_base(ss, data, analysis)
    /\ UNCHANGED <<genVars, now, succ_times>>

BlankAnalyze ==
    /\ op.name = "none"
    /\ \E data \in BlankDatas, orc \in UsageOracles, h \in Histories :
          Analyze(data, orc, h)

BlankDirect ==
    /\ op.name = "none"
    /\ \E data \in BlankDatas, h \in Histories :
          Direct(data, ANALYSIS_HDL, h)

NextBlank ==
    \/ BlankAnalyze
    \/ BlankDirect

SpecBlank == InitAgent /\ [][NextBlank]_vars

----------------------------------------------------------------------------
(* utils/validators.py, utils/pdfHelper.py, components/form.py: the report
   text of an uploaded file *)

MAX_PDF_UPLOAD_SIZE_IN_MB == 20
MAX_PDF_PAGE_COUNT == 50

\* 1024 * 1024
MB == 1048576

DigitChars == <<"0","1","2","3","4","5","6","7","8","9">>

\* str(n) of a natural number
RECURSIVE Digits(_)
Digits(n) ==
    IF n < 10 THEN <<DigitChars[n + 1]>>
    ELSE Digits(n \div 10) \o <<DigitChars[(n % 10) + 1]>>

\* f"{size / (1024 * 1024):.1f}", to the nearest tenth
Fixed1(size) ==
    LET tenths == (size * 10 + MB \div 2) \div MB
    IN Digits(tenths \div 10) \o <<".">> \o Digits(tenths % 10)

\* str.startswith
StartsWith(text, prefix) ==
    Len(text) >= Len(prefix) /\ SubSeq(text, 1, Len(prefix)) = prefix

Whitespace == {" ", NL}

\* str.strip()
RECURSIVE Strip(_)
Strip(text) ==
    IF text = <<>> THEN text
    ELSE IF text[1] \in Whitespace THEN Strip(Tail(text))
    ELSE IF text[Len(text)] \in Whitespace
         THEN Strip(SubSeq(text, 1, Len(text) - 1))
    ELSE text

NO_FILE == <<"N","o"," ","f","i","l","e"," ","u","p","l","o","a","d","e","d">>
INVALID_TYPE == <<"I","n","v","a","l","i","d"," ","f","i","l","e"," ","t","y","p","e","."," ","P","l","e","a","s","e"," ","u","p","l","o","a","d"," ","a"," ","P","D","F"," ","f","i","l","e">>
TOO_SHORT == <<"E","x","t","r","a","c","t","e","d"," ","t","e","x","t"," ","i","s"," ","t","o","o"," ","s","h","o","r","t","."," ","P","l","e","a","s","e"," ","e","n","s","u","r","e"," ","t","h","e"," ","P","D","F"," ","c","o","n","t","a","i","n","s"," ","v","a","l","i","d"," ","t","e","x","t",".">>
NOT_MEDICAL == <<"T","h","e"," ","u","p","l","o","a","d","e","d"," ","f","i","l","e"," ","d","o","e","s","n","'","t"," ","a","p","p","e","a","r"," ","t","o"," ","b","e"," ","a"," ","m","e","d","i","c","a","l"," ","r","e","p","o","r","t","."," ","P","l","e","a","s","e"," ","u","p","l","o","a","d"," ","a"," ","v","a","l","i","d"," ","m","e","d","i","c","a","l"," ","r","e","p","o","r","t",".">>
NOT_EXTRACTED == <<"C","o","u","l","d"," ","n","o","t"," ","e","x","t","r","a","c","t"," ","t","e","x","t"," ","f","r","o","m"," ","P","D","F","."," ","P","l","e","a","s","e"," ","e","n","s","u","r","e"," ","i","t","'","s"," ","n","o","t"," ","a"," ","s","c","a","n","n","e","d"," ","d","o","c","u","m","e","n","t",".">>
ERROR_EXTRACTING == <<"E","r","r","o","r"," ","e","x","t","r","a","c","t","i","n","g"," ","t","e","x","t"," ","f","r","o","m"," ","P","D","F",":"," ">>
NONE_PLUS_STR == <<"u","n","s","u","p","p","o","r","t","e","d"," ","o","p","e","r","a","n","d"," ","t","y","p","e","(","s",")"," ","f","o","r"," ","+",":"," ","'","N","o","n","e","T","y","p","e","'"," ","a","n","d"," ","'","s","t","r","'">>

\* f"File size ({file_size_mb:.1f}MB) exceeds the {MAX_PDF_UPLOAD_SIZE_IN_MB}MB limit"
FileSizeMessage(size) ==
    <<"F","i","l","e"," ","s","i","z","e"," ","(">> \o Fixed1(size)
        \o <<"M","B",")"," ","e","x","c","e","e","d","s"," ","t","h","e"," ">> \o Digits(MAX_PDF_UPLOAD_SIZE_IN_MB)
        \o <<"M","B"," ","l","i","m","i","t">>

\* f"PDF exceeds maximum page limit of {MAX_PDF_PAGE_COUNT}"
PageLimitMessage ==
    <<"P","D","F"," ","e","x","c","e","e","d","s"," ","m","a","x","i","m","u","m"," ","p","a","g","e"," ","l","i","m","i","t"," ","o","f"," ">> \o Digits(MAX_PDF_PAGE_COUNT)

\* no uploaded file
NoFile == [none |-> TRUE]

\* validators.validate_pdf_file: (is_valid, error)
validate_pdf_file(file) ==
    IF file = NoFile THEN <<FALSE, NO_FILE>>
    ELSE IF file.size > MAX_PDF_UPLOAD_SIZE_IN_MB * MB
    THEN <<FALSE, FileSizeMessage(file.size)>>
    ELSE IF file.type # "application/pdf" THEN <<FALSE, INVALID_TYPE>>
    ELSE <<TRUE, NoneText>>

medical_terms ==
    << <<"b","l","o","o","d">>,
       <<"t","e","s","t">>,
       <<"r","e","p","o","r","t">>,
       <<"l","a","b","o","r","a","t","o","r","y">>,
       <<"l","a","b">>,
       <<"p","a","t","i","e","n","t">>,
       <<"s","p","e","c","i","m","e","n">>,
       <<"r","e","f","e","r","e","n","c","e"," ","r","a","n","g","e">>,
       <<"a","n","a","l","y","s","i","s">>,
       <<"r","e","s","u","l","t","s">>,
       <<"m","e","d","i","c","a","l">>,
       <<"d","i","a","g","n","o","s","t","i","c">>,
       <<"h","e","m","o","g","l","o","b","i","n">>,
       <<"w","b","c">>,
       <<"r","b","c">>,
       <<"p","l","a","t","e","l","e","t">>,
       <<"g","l","u","c","o","s","e">>,
       <<"c","r","e","a","t","i","n","i","n","e">> >>

\* validators.validate_pdf_content: (is_valid, error)
validate_pdf_content(text) ==
    LET text_lower == Lower(text)
        term_matches ==
            Cardinality({i \in 1..Len(medical_terms) :
                            Contains(text_lower, medical_terms[i])})
    IN IF Len(Strip(text)) < 50 THEN <<FALSE, TOO_SHORT>>
       ELSE IF term_matches < 3 THEN <<FALSE, NOT_MEDICAL>>
       ELSE <<TRUE, NoneText>>

\* what pdfplumber makes of the file: open raises, or the document has
\* pages, of each of which extract_text() gives a text or None
Unreadable(text) == [kind |-> "raise", text |-> text]
Document(pages) == [kind |-> "pdf", pages |-> pages]

RECURSIVE PageTexts(_)
\* text += extracted + "\n" for every page
PageTexts(pages) ==
    IF pages = <<>> THEN <<>>
    ELSE pages[1] \o <<NL>> \o PageTexts(Tail(pages))

\* the exception the try block of extract_text_from_pdf ends with, <<>> if none
ExtractRaises(file) ==
    IF file.pdf.kind = "raise" THEN file.pdf.text
    ELSE IF \E i \in 1..Len(file.pdf.pages) : file.pdf.pages[i] = NoneText
    THEN NONE_PLUS_STR
    ELSE IF \A i \in 1..Len(PageTexts(file.pdf.pages)) :
                PageTexts(file.pdf.pages)[i] = NL
    THEN NOT_EXTRACTED
    ELSE <<>>

\* pdfHelper.extract_text_from_pdf: the text, or an error message
extract_text_from_pdf(file) ==
    LET checked == validate_pdf_file(file)
    IN IF ~checked[1] THEN checked[2]
       ELSE IF file.pdf.kind = "pdf"
               /\ Len(file.pdf.pages) > MAX_PDF_PAGE_COUNT
       THEN PageLimitMessage
       ELSE IF ExtractRaises(file) # <<>>
       THEN ERROR_EXTRACTING \o ExtractRaises(file)
       ELSE LET text == PageTexts(file.pdf.pages)
                content == validate_pdf_content(text)
            IN IF ~content[1] THEN content[2] ELSE text

FILE_SIZE_EXCEEDS == <<"F","i","l","e"," ","s","i","z","e"," ","e","x","c","e","e","d","s">>
INVALID_FILE_TYPE == <<"I","n","v","a","l","i","d"," ","f","i","l","e"," ","t","y","p","e">>
ERROR_VALIDATING == <<"E","r","r","o","r"," ","v","a","l","i","d","a","t","i","n","g">>
THE_UPLOADED_FILE == <<"T","h","e"," ","u","p","l","o","a","d","e","d"," ","f","i","l","e">>
ERROR_WORD == <<"e","r","r","o","r">>
UPLOAD_TYPE_ERROR == <<"P","l","e","a","s","e"," ","u","p","l","o","a","d"," ","a"," ","v","a","l","i","d"," ","P","D","F"," ","f","i","l","e",".">>

\* f"File size ({file_size_mb:.1f}MB) exceeds the {MAX_PDF_UPLOAD_SIZE_IN_MB}MB limit."
UploadSizeError(size) == FileSizeMessage(size) \o <<".">>

\* the test of get_report_contents for an error in the extracted content
LooksLikeError(pdf_contents) ==
    \/ StartsWith(pdf_contents, FILE_SIZE_EXCEEDS)
    \/ StartsWith(pdf_contents, INVALID_FILE_TYPE)
    \/ StartsWith(pdf_contents, ERROR_VALIDATING)
    \/ StartsWith(pdf_contents, THE_UPLOADED_FILE)
    \/ Contains(Lower(pdf_contents), ERROR_WORD)

\* config.SAMPLE_REPORT, its first lines
SAMPLE_REPORT == <<"B","L","O","O","D"," ","T","E","S","T"," ","R","E","P","O","R","T",NL,"L","a","b","o","r","a","t","o","r","y",":"," ","H","e","a","l","t","h","C","a","r","e"," ","D","i","a","g","n","o","s","t","i","c","s",NL,"H","e","m","o","g","l","o","b","i","n",":"," ","1","4",".","2"," ","g","/","d","L">>

\* form.get_report_contents: the errors shown, whether extract_text_from_pdf
\* was called and what it returned, and the contents returned
get_report_contents(report_source, uploaded_file) ==
    IF report_source = "Upload PDF"
    THEN IF uploaded_file = NoFile
         THEN [shown |-> <<>>, extracted |-> NoneText, contents |-> NoneText]
         ELSE IF uploaded_file.size > MAX_PDF_UPLOAD_SIZE_IN_MB * MB
         THEN [shown |-> <<UploadSizeError(uploaded_file.size)>>,
               extracted |-> NoneText, contents |-> NoneText]
         ELSE IF uploaded_file.type # "application/pdf"
         THEN [shown |-> <<UPLOAD_TYPE_ERROR>>, extracted |-> NoneText,
               contents |-> NoneText]
         ELSE LET pdf_contents == extract_text_from_pdf(uploaded_file)
              IN IF LooksLikeError(pdf_contents)
                 THEN [shown |-> <<pdf_contents>>, extracted |-> pdf_contents,
                       contents |-> NoneText]
                 ELSE [shown |-> <<>>, extracted |-> pdf_contents,
                       contents |-> pdf_contents]
    ELSE [shown |-> <<>>, extracted |-> NoneText, contents |-> SAMPLE_REPORT]

PAGE_MEDICAL == <<"B","l","o","o","d"," ","t","e","s","t"," ","r","e","p","o","r","t",NL,"H","e","m","o","g","l","o","b","i","n",":"," ","1","4",".","2"," ","g","/","d","L",","," ","g","l","u","c","o","s","e"," ","8","8"," ","m","g","/","d","L"," ","(","f","a","s","t","i","n","g",")">>
PAGE_WITH_ERROR == <<"B","l","o","o","d"," ","t","e","s","t"," ","r","e","p","o","r","t",NL,"H","e","m","o","g","l","o","b","i","n"," ","1","4",".","2"," ","g","/","d","L",","," ","s","t","a","n","d","a","r","d"," ","e","r","r","o","r"," ","0",".","1"," ","g","/","d","L"," ","o","k">>
PAGE_LETTER == <<"D","e","a","r"," ","S","i","r",","," ","t","h","a","n","k"," ","y","o","u"," ","f","o","r"," ","t","h","e"," ","i","n","v","o","i","c","e"," ","o","f"," ","l","a","s","t"," ","w","e","e","k",";"," ","w","e"," ","s","h","a","l","l"," ","p","a","y"," ","i","t"," ","s","o","o","n",".">>
PAGE_SHORT == <<"g","l","u","c","o","s","e"," ","8","8">>

\* what pdfplumber makes of the uploaded files
Pdfs ==
    { Unreadable(<<"N","o"," ","/","R","o","o","t"," ","o","b","j","e","c","t","!"," ","-"," ","I","s"," ","t","h","i","s"," ","r","e","a","l","l","y"," ","a"," ","P","D","F","?">>),
      Document([i \in 1..(MAX_PDF_PAGE_COUNT + 1) |-> PAGE_MEDICAL]),
      Document(<<>>),
      Document(<<<<>>>>),
      Document(<<NoneText>>),
      Document(<<PAGE_MEDICAL, NoneText>>),
      Document(<<PAGE_SHORT>>),
      Document(<<PAGE_LETTER>>),
      Document(<<PAGE_MEDICAL>>),
      Document(<<PAGE_WITH_ERROR>>),
      Document(<<PAGE_SHORT, PAGE_MEDICAL>>) }

\* file sizes in bytes: small, at the limit, one byte and 5 MB over it
FileSizes ==
    { MB, MAX_PDF_UPLOAD_SIZE_IN_MB * MB, MAX_PDF_UPLOAD_SIZE_IN_MB * MB + 1,
      (MAX_PDF_UPLOAD_SIZE_IN_MB + 5) * MB }

Files ==
    {NoFile} \cup [size : FileSizes, type : {"application/pdf", "image/png"},
                   pdf : Pdfs]

InitPdf ==
    /\ clients = {"groq"}
    /\ oracle = OracleOf(<<>>)
    /\ gen_events = <<>>
    /\ gen_result = NoResult
    /\ now = 0
    /\ op = [name |-> "none"]
    /\ succ_times = <<>>
    /\ ss = [session_initialized |-> TRUE, auth_token |-> "token",
             user |-> "u1"]
    /\ \E report_source \in {"Upload PDF", "Use Sample PDF"}, file \in Files :
          gen_args = [report_source |-> report_source, uploaded_file |-> file]

\* pdf_contents = get_report_contents(report_source)
GetReportContents ==
    /\ op.name = "none"
    /\ \E out \in {get_report_contents(gen_args.report_source,
                                       gen_args.uploaded_file)} :
          op' = [name |-> "get_report_contents", shown |-> out.shown,
                 extracted |-> out.extracted, contents |-> out.contents]
    /\ UNCHANGED <<genVars, now, ss, succ_times>>

NextPdf == GetReportContents

SpecPdf == InitPdf /\ [][NextPdf]_vars

----------------------------------------------------------------------------
(* auth/session.py, auth/service.py, components/auth.py,
   components/sidebar.py, app.py: one run of the page script.  A run works on
   a page record: the session state, the backend (the Supabase client's
   session token and the stored chat sessions), whether st.rerun() ended the
   run, and what the run did. *)

SESSION_TIMEOUT_IN_MINUTES == 30

\* the None of st.session_state.get(...) and of a value set to None
NoValue == "None"

\* the access token of the client's session after a sign-in, after a sign-up
\* that opens a session, and after the client replaced its session
SIGNIN_TOKEN == "token"
SIGNUP_TOKEN == "fresh"
OTHER_TOKEN == "other"

\* the user records of sign_in and of sign_up
SIGNIN_USER == "u1"
SIGNUP_USER == "u2"

SESSION_EXPIRED == "Session expired. Please log in again."
INVALID_SESSION == "Invalid session. Please log in again."

\* what a run may render
LOGIN_PAGE == "login_page"
GREETING == "user_greeting"
SIDEBAR == "sidebar"
CHAT_HISTORY == "chat_history"
ANALYSIS_FORM == "analysis_form"
WELCOME == "welcome_screen"

\* the page record a run starts from
Page(s, backend) ==
    [ss |-> s, backend |-> backend, rerun |-> FALSE, cleared |-> FALSE,
     validated |-> <<>>, matched |-> <<>>, touched |-> <<>>,
     rendered |-> {}, widgets |-> {}, shown |-> <<>>]

\* st.rerun(): the script stops here
Rerun(p) == [p EXCEPT !.rerun = TRUE]

\* st.error, st.warning, st.success
Show(p, message) == [p EXCEPT !.shown = Append(@, message)]

Render(p, content) == [p EXCEPT !.rendered = @ \cup {content}]

\* a st.button or st.form_submit_button of the run, by its key
Widget(p, key) == [p EXCEPT !.widgets = @ \cup {key}]

\* AuthService.validate_session_token: user data, or None when the client has
\* no session, its token is not the stored one, or the user cannot be read
validate_session_tokenBad(s, backend, reach) ==
    backend.token # NoValue /\ reach

validate_session_token(s, backend, reach) ==
    /\ backend.token # NoValue
    /\ backend.token = Get(s, "auth_token", NoValue)
    /\ reach

\* a validation of the run, its result and the two tokens it met
Validate(p, reach) ==
    [p EXCEPT !.validated =
                 Append(@, validate_session_token(p.ss, p.backend, reach)),
              !.matched =
                 Append(@, <<p.backend.token,
                             Get(p.ss, "auth_token", NoValue)>>)]

\* a call of SessionManager.clear_session_state within the run
Clear(p) ==
    [p EXCEPT !.ss = clear_session_state(p.ss), !.cleared = TRUE]

\* AuthService.sign_out
sign_out(p) == Clear([p EXCEPT !.backend.token = NoValue])

\* AuthService(): the token of the session is validated when one is stored
AuthService(p, reach) ==
    IF Has(p.ss, "auth_token")
    THEN LET v == Validate(p, reach)
         IN IF v.validated[Len(v.validated)] THEN v ELSE sign_out(v)
    ELSE p

\* idle_time > timedelta(minutes=SESSION_TIMEOUT_IN_MINUTES)
TimedOutBad(idle_time) == idle_time >= SESSION_TIMEOUT_IN_MINUTES * MINUTE

TimedOut(idle_time) == idle_time > SESSION_TIMEOUT_IN_MINUTES * MINUTE

\* SessionManager.init_session at time t
init_session(p, t, reach) ==
    LET p1 == IF Has(p.ss, "session_initialized") THEN p
              ELSE LET c == Clear(p)
                   IN [c EXCEPT !.ss = Put(c.ss, "session_initialized", TRUE)]
        p2 == IF Has(p1.ss, "auth_service") THEN p1
              ELSE LET a == AuthService(p1, reach)
                   IN [a EXCEPT !.ss = Put(a.ss, "auth_service", "AuthService")]
        p3 == [p2 EXCEPT !.ss = Put(p2.ss, "last_activity", t),
                         !.touched = Append(@, Put(p2.ss, "last_activity", t))]
    IN IF Has(p2.ss, "last_activity") /\ TimedOut(t - p2.ss.last_activity)
       THEN Rerun(Show(Clear(p2), SESSION_EXPIRED))
       ELSE IF Has(p3.ss, "user")
            THEN LET v == Validate(p3, reach)
                 IN IF v.validated[Len(v.validated)] THEN v
                    ELSE Rerun(Show(Clear(v), INVALID_SESSION))
            ELSE p3

\* SessionManager.logout
logout(p) ==
    Clear(IF Has(p.ss, "auth_service") THEN sign_out(p) ELSE p)

\* the chat sessions a user may have, newest first
ChatIds == <<"s2", "s1">>

\* AuthService.create_session: the new row, or the insert raises
create_session(p, ok) ==
    LET free == SelectSeq(ChatIds, LAMBDA id : id \notin p.backend.chats)
    IN IF ok /\ free # <<>>
       THEN [ok |-> TRUE, session |-> free[Len(free)],
             page |-> [p EXCEPT !.backend.chats = @ \cup {free[Len(free)]}]]
       ELSE [ok |-> FALSE, session |-> NoValue, page |-> p]

\* the "new session" buttons of the sidebar and of the welcome screen
NewSession(p, key, inp) ==
    LET w == Widget(p, key)
        made == create_session(w, inp.ok)
    IN IF inp.click # key THEN w
       ELSE IF made.ok
            THEN Rerun([made.page EXCEPT
                          !.ss = Put(@, "current_session", made.session)])
            ELSE Show(w, "Failed to create session")

\* components/auth.py show_login_form
show_login_form(p, inp) ==
    LET w == Widget(p, <<"login", "">>)
        cleared == sign_out(w)
    IN IF inp.click # <<"login", "">> THEN w
       ELSE IF ~inp.valid THEN Show(w, "Please enter both email and password")
       ELSE IF inp.ok
            THEN Rerun([cleared EXCEPT
                           !.ss = sign_in(w.ss, TRUE),
                           !.backend.token = SIGNIN_TOKEN])
            ELSE Show([cleared EXCEPT !.ss = sign_in(w.ss, FALSE)],
                      "Login failed")

\* components/auth.py show_signup_form; the client's session after auth.sign_up
\* is the new one when the sign-up opens a session and no session otherwise
show_signup_form(p, inp) ==
    LET w == Widget(p, <<"signup", "">>)
    IN IF inp.click # <<"signup", "">> THEN w
       ELSE IF ~inp.valid THEN Show(w, "Please fill in all fields")
       ELSE IF inp.ok
            THEN Rerun(Show(
                   [w EXCEPT
                      !.ss = Put(Put(@, "authenticated", TRUE),
                                 "user", SIGNUP_USER),
                      !.backend.token =
                          IF inp.given THEN SIGNUP_TOKEN ELSE NoValue],
                   "Account created successfully! Redirecting..."))
            ELSE Show(w, "Sign up failed")

\* components/auth.py show_login_page
show_login_page(p, inp) ==
    LET p1 == Render([p EXCEPT !.ss = SetDefault(@, "form_type", "login")],
                     LOGIN_PAGE)
        current_form == p1.ss.form_type
        p2 == IF current_form = "login" THEN show_login_form(p1, inp)
              ELSE show_signup_form(p1, inp)
        p3 == Widget(p2, <<"toggle", "">>)
    IN IF p2.rerun THEN p2
       ELSE IF inp.click = <<"toggle", "">>
            THEN Rerun([p3 EXCEPT
                          !.ss = Put(@, "form_type",
                                     IF current_form = "login" THEN "signup"
                                     ELSE "login")])
            ELSE p3

\* components/sidebar.py handle_delete_confirmation
handle_delete_confirmationBad(p, session_id, current_session_id, ok) ==
    IF ok
    THEN Rerun([p EXCEPT !.backend.chats = @ \ {session_id},
                         !.ss = Put(Put(@, "delete_confirmation", NoValue),
                                    "current_session", NoValue)])
    ELSE Show(p, "Failed to delete")

handle_delete_confirmation(p, session_id, current_session_id, ok) ==
    IF ok
    THEN LET d == [p EXCEPT !.backend.chats = @ \ {session_id},
                            !.ss = Put(@, "delete_confirmation", NoValue)]
         IN Rerun(IF current_session_id # NoValue
                     /\ current_session_id = session_id
                  THEN [d EXCEPT !.ss = Put(@, "current_session", NoValue)]
                  ELSE d)
    ELSE Show(p, "Failed to delete")

\* components/sidebar.py render_session_item
render_session_item(p, session_id, inp) ==
    LET current_session_id == Get(p.ss, "current_session", NoValue)
        p1 == Widget(Widget(p, <<"session", session_id>>),
                     <<"delete", session_id>>)
        p2 == Widget(Widget(Show(p1, "Delete above session?"),
                            <<"confirm_delete", session_id>>),
                     <<"cancel_delete", session_id>>)
    IN IF inp.click = <<"session", session_id>>
       THEN Rerun([p1 EXCEPT !.ss = Put(@, "current_session", session_id)])
       ELSE IF inp.click = <<"delete", session_id>>
       THEN Rerun([p1 EXCEPT
                     !.ss = Put(@, "delete_confirmation",
                                IF @.delete_confirmation = session_id
                                THEN NoValue ELSE session_id)])
       ELSE IF p1.ss.delete_confirmation # session_id THEN p1
       ELSE IF inp.click = <<"confirm_delete", session_id>>
       THEN handle_delete_confirmation(p2, session_id, current_session_id,
                                       inp.ok)
       ELSE IF inp.click = <<"cancel_delete", session_id>>
       THEN Rerun([p2 EXCEPT !.ss = Put(@, "delete_confirmation", NoValue)])
       ELSE p2

\* components/sidebar.py render_session_list: the items in order, until one
\* of them reruns the script
RECURSIVE RenderItems(_, _, _, _)
RenderItems(p, sessions, i, inp) ==
    IF i > Len(sessions) \/ p.rerun THEN p
    ELSE RenderItems(render_session_item(p, sessions[i], inp), sessions,
                     i + 1, inp)

render_session_list(p, sessions, inp) ==
    RenderItems([p EXCEPT !.ss = SetDefault(@, "delete_confirmation",
                                            NoValue)],
                sessions, 1, inp)

\* components/sidebar.py show_session_list
show_session_list(p, inp) ==
    LET sessions == SelectSeq(ChatIds, LAMBDA id : id \in p.backend.chats)
    IN IF ~inp.listed THEN Show(p, "Error fetching sessions")
       ELSE IF sessions = <<>> THEN Show(p, "No previous sessions")
       ELSE render_session_list(p, sessions, inp)

\* components/sidebar.py show_sidebar
show_sidebar(p, inp) ==
    LET p1 == NewSession(Render(p, SIDEBAR), <<"new", "">>, inp)
        p2 == [p1 EXCEPT !.ss = SetDefault(@, "analysis_count", 0)]
        p3 == show_session_list(p2, inp)
        p4 == Widget(p3, <<"logout", "">>)
    IN IF p1.rerun THEN p1
       ELSE IF p3.rerun THEN p3
       ELSE IF inp.click = <<"logout", "">> THEN Rerun(logout(p4))
       ELSE p4

\* app.py main
main(p, t, inp) ==
    LET p1 == init_session(p, t, inp.reach)
        p2 == show_sidebar(Render(p1, GREETING), inp)
    IN IF p1.rerun THEN p1
       ELSE IF ~is_authenticated(p1.ss) THEN show_login_page(p1, inp)
       ELSE IF p2.rerun THEN p2
       ELSE IF Get(p2.ss, "current_session", NoValue) # NoValue
            THEN Widget(Render(Render(p2, CHAT_HISTORY), ANALYSIS_FORM),
                        <<"analyze", "">>)
            ELSE NewSession(Render(p2, WELCOME), <<"create", "">>, inp)

\* app.py: the script from its first line
app(s, backend, t, inp) ==
    LET p1 == init_session(Page(s, backend), t, inp.reach)
    IN IF p1.rerun THEN p1 ELSE main(p1, t, inp)

----------------------------------------------------------------------------
(* One browser session: page runs at chosen instants, each started by a click
   on a widget of the run before or by a reload, and the client's session
   ending or being replaced in between.  The analysis form's submission is
   the Submit of the session specification and is left out here; gen_args
   holds the backend. *)

MaxClock == 3602

\* the time between two runs: none, the timeout to the second, a second more
PageLapses == {0, SESSION_TIMEOUT_IN_MINUTES * MINUTE,
               SESSION_TIMEOUT_IN_MINUTES * MINUTE + 1}

NoClick == <<"none", "">>

\* the outcomes a run draws: the click, whether the user can be read, whether
\* the clicked operation succeeds, whether the form's fields are valid,
\* whether a sign-up opens a session, whether the sessions can be listed
Inputs(clicks) ==
    [click : clicks, reach : BOOLEAN, ok : BOOLEAN, valid : BOOLEAN,
     given : BOOLEAN, listed : BOOLEAN]

Clicks ==
    {NoClick, <<"login", "">>, <<"signup", "">>, <<"toggle", "">>,
     <<"new", "">>, <<"create", "">>, <<"logout", "">>}
    \cup ({"session", "delete", "confirm_delete", "cancel_delete"}
          \X {ChatIds[i] : i \in 1..Len(ChatIds)})

InitPage ==
    /\ clients = {"groq"}
    /\ oracle = OracleOf(<<>>)
    /\ gen_args = [token |-> NoValue, chats |-> {}]
    /\ gen_events = <<>>
    /\ gen_result = NoResult
    /\ now = 0
    /\ ss = <<>>
    /\ op = [name |-> "none", rerun |-> FALSE, widgets |-> {}]
    /\ succ_times = <<>>

\* a run of app.py; the run after a st.rerun() follows at once
PageRun(lapse, inp) ==
    /\ now + lapse <= MaxClock
    /\ op.rerun => lapse = 0 /\ inp.click = NoClick
    /\ inp.click \in Clicks
    /\ \E out \in {app(ss, gen_args, now + lapse, inp)} :
          /\ ss' = out.ss
          /\ gen_args' = out.backend
          /\ now' = now + lapse
          /\ op' = [name |-> "run", before |-> ss, backend |-> gen_args,
                    t |-> now + lapse, click |-> inp.click, ok |-> inp.ok,
                    rerun |-> out.rerun, cleared |-> out.cleared,
                    validated |-> out.validated, matched |-> out.matched,
                    touched |-> out.touched, rendered |-> out.rendered,
                    widgets |-> out.widgets, shown |-> out.shown]
    /\ UNCHANGED <<clients, oracle, gen_events, gen_result, succ_times>>

\* the client's session ends, or the client replaces it
BackendChange(token) ==
    /\ ~op.rerun
    /\ gen_args.token \notin {NoValue, token}
    /\ gen_args' = [gen_args EXCEPT !.token = token]
    /\ op' = [name |-> "backend", rerun |-> FALSE, widgets |-> op.widgets]
    /\ UNCHANGED <<clients, oracle, gen_events, gen_result, now, ss,
                   succ_times>>

NextPage ==
    \/ \E lapse \in PageLapses, inp \in Inputs(op.widgets \cup {NoClick}) :
          PageRun(lapse, inp)
    \/ \E token \in {NoValue, OTHER_TOKEN} : BackendChange(token)

SpecPage == InitPage /\ [][NextPage]_vars

----------------------------------------------------------------------------
(* agents/services.py generate_analysis, the entry point of the form: one
   call on a drawn agent state, beside the same call on a session that
   differs in its knowledge base and in the chat messages stored for it *)

\* the chat_history generate_analysis hands to analyze_report: none, whatever
\* the session_id and the messages stored for it
ServiceHistoryBad(session_id, stored) ==
    IF session_id # NoValue THEN History(stored) ELSE NoHistory

ServiceHistory(session_id, stored) == NoHistory

\* services.generate_analysis(data, system_prompt, check_only, session_id)
services_generate_analysis(s, t, data, system_prompt, check_only, session_id, stored, orc, cl) ==
    LET s0 == init_analysis_state(s, t)
        checked == check_rate_limit(s0, t)
    IN IF check_only
       THEN [ss |-> checked.ss, t |-> t, events |-> <<>>, called |-> FALSE,
             result |-> [check |-> checked.ret]]
       ELSE analyze_report(s0, t, data, system_prompt,
                           ServiceHistory(session_id, stored), orc, cl)

\* the messages stored for the chat session
StoredMessages ==
    { <<>>,
      <<Msg("user", USER_MSG), Msg("assistant", AI_MSG)>>,
      <<Msg("user", USER_MSG), Msg("assistant", INSIGHT_HDL),
        Msg("user", USER_MSG), Msg("assistant", AI_MSG)>> }

\* system prompts a caller may supply
ServicePrompts == {COMPREHENSIVE_ANALYST, <<"B","r","i","e","f",".">>}

\* generate_analysis(data, system_prompt, session_id=session_id) in a session
\* with the messages stored, and in its twin with the knowledge base kb and
\* the messages stored2
Serve(data, system_prompt, session_id, stored, orc, kb, stored2) ==
    /\ op.name = "none"
    /\ \E out \in {services_generate_analysis(ss, now, data, system_prompt,
                                               FALSE, session_id, stored, orc,
                                               clients)},
          twin \in {services_generate_analysis(
                       [ss EXCEPT !.knowledge_base = kb], now, data,
                       system_prompt, FALSE, session_id, stored2, orc,
                       clients)} :
          /\ ss' = out.ss
          /\ now' = out.t
          /\ oracle' = orc
          /\ gen_args' = [data |-> _preprocess_data(data),
                          system_prompt |-> system_prompt]
          /\ gen_events' = out.events
          /\ gen_result' = out.result
          /\ op' = [name |-> "generate_analysis", before |-> ss,
                    system_prompt |-> system_prompt,
                    session_id |-> session_id, stored |-> stored,
                    twin_kb |-> kb, twin_stored |-> stored2,
                    requests |-> RequestsOf(out.events),
                    twin_requests |-> RequestsOf(twin.events)]
          /\ succ_times' = IF Succeeded(out.result)
                           THEN Append(succ_times, out.t) ELSE succ_times
    /\ UNCHANGED clients

NextService ==
    \E data \in {DATA_CAL}, system_prompt \in ServicePrompts,
       session_id \in {NoValue, "s1"}, stored \in StoredMessages,
       orc \in UsageOracles, kb \in KbSets, stored2 \in StoredMessages :
       Serve(data, system_prompt, session_id, stored, orc, kb, stored2)

SpecService == InitAgent /\ [][NextService]_vars

----------------------------------------------------------------------------
(* A logged-in session that has a knowledge base: page runs (reloads, some
   after the idle timeout, the Logout button, the login form) and analyses
   whose prompt recalls the knowledge base.  gen_args holds the backend, op
   the snippets stored since the session state was last cleared. *)

\* every snippet of a knowledge base
SnippetsIn(kb) ==
    UNION { UNION { {kb[i][2][j][2][k] : k \in 1..Len(kb[i][2][j][2])}
                    : j \in 1..Len(kb[i][2]) }
            : i \in 1..Len(kb) }

\* what the provider answers: its analyses name the indicator in two ways
ClearOracles ==
    { OracleOf(<<Completion(<<[content |-> ANALYSIS_HDL]>>)>>),
      OracleOf(<<Completion(<<[content |-> ANALYSIS_UP]>>)>>) }

\* a chat history that quotes no snippet
PLAIN_HISTORY ==
    History(<<Msg("user", USER_MSG), Msg("assistant", <<"o","k">>)>>)

ClearClicks == {NoClick, <<"login", "">>, <<"logout", "">>}

ClearLapses == {0, SESSION_TIMEOUT_IN_MINUTES * MINUTE + 1}

\* the analyses of one behaviour
MaxAnalyses == 3

InitClear ==
    /\ clients = {"groq"}
    /\ oracle = OracleOf(<<>>)
    /\ gen_args = [token |-> SIGNIN_TOKEN, chats |-> {}]
    /\ gen_events = <<>>
    /\ gen_result = NoResult
    /\ now = 0
    /\ \E kb \in KbSets :
          /\ ss = [session_initialized |-> TRUE, auth_service |-> "AuthService",
                   auth_token |-> SIGNIN_TOKEN, user |-> SIGNIN_USER,
                   last_activity |-> 0, analysis_agent |-> "AnalysisAgent",
                   analysis_count |-> Len(kb), last_analysis |-> 0,
                   analysis_limit |-> ANALYSIS_LIMIT,
                   models_used |-> IF kb = <<>> THEN EmptyDict
                                   ELSE Put(EmptyDict, PRIMARY_USED, Len(kb)),
                   knowledge_base |-> kb]
          /\ op = [name |-> "none", cleared |-> FALSE, since |-> SnippetsIn(kb),
                   dropped |-> {}]
    /\ succ_times = <<>>

\* a run of app.py; what was stored is forgotten when the run clears the
\* session state
ClearRun(lapse, click) ==
    /\ now + lapse <= MaxClock
    /\ \E out \in {app(ss, gen_args, now + lapse,
                        [click |-> click, reach |-> TRUE, ok |-> TRUE,
                         valid |-> TRUE, given |-> FALSE, listed |-> TRUE])} :
          /\ ss' = out.ss
          /\ gen_args' = out.backend
          /\ now' = now + lapse
          /\ op' = [name |-> "run", cleared |-> out.cleared, click |-> click,
                    shown |-> out.shown,
                    since |-> IF out.cleared THEN {} ELSE op.since,
                    dropped |-> IF out.cleared THEN op.dropped \cup op.since
                                ELSE op.dropped]
    /\ UNCHANGED <<clients, oracle, gen_events, gen_result, succ_times>>

\* an analysis of the logged-in user, its prompt built with a chat history
ClearAnalyze(orc) ==
    /\ is_authenticated(ss)
    /\ Len(succ_times) < MaxAnalyses
    /\ \E s0 \in {init_analysis_state(ss, now)} :
       \E out \in {analyze_report(s0, now, DATA_CAL, COMPREHENSIVE_ANALYST,
                                   PLAIN_HISTORY, orc, clients)} :
          /\ ss' = out.ss
          /\ now' = out.t
          /\ oracle' = orc
          /\ gen_events' = out.events
          /\ gen_result' = out.result
          /\ op' = [name |-> "analyze", cleared |-> FALSE,
                    known |-> op.since, dropped |-> op.dropped,
                    since |-> op.since
                              \cup SnippetsIn(out.ss.knowledge_base)]
          /\ succ_times' = IF Succeeded(out.result)
                           THEN Append(succ_times, out.t) ELSE succ_times
    /\ UNCHANGED <<clients, gen_args>>

NextClear ==
    \/ \E lapse \in ClearLapses, click \in ClearClicks : ClearRun(lapse, click)
    \/ \E orc \in ClearOracles : ClearAnalyze(orc)

SpecClear == InitClear /\ [][NextClear]_vars

----------------------------------------------------------------------------
(* Properties of generate_analysis, checked under SpecGen *)

Returned == gen_result # NoResult
GenRequests == RequestsOf(gen_events)
HasClient == "groq" \in clients

\* the provider answered the n-th request with a completion that has a message
Answered(n) == oracle[n].kind = "completion" /\ Len(oracle[n].choices) > 0

\* the static configuration, tier by tier, written out
TierModels ==
    << "llama-3.3-70b-versatile", "llama-3-8b-8192",
       "mixtral-8x7b-32768", "gemma-7b-it" >>
TierModelUsed ==
    << "groq/llama-3.3-70b-versatile", "groq/llama-3-8b-8192",
       "groq/mixtral-8x7b-32768", "groq/gemma-7b-it" >>

\* C1: whatever the provider answers (a completion, any exception, a
\* rate-limit exception), one generate_analysis call started at retry_count 0
\* has issued at most 4 provider requests when it returns.
C1_AtMostFourRequests ==
    Returned => Len(GenRequests) <= 4

C1_Witness ==
    /\ Returned /\ gen_result.success = TRUE
    /\ Len(GenRequests) = 4
    /\ \E i \in 1..3 : oracle[i] = Raise(ErrRateLimit)

\* C2: when the provider raises on all four tiers, the call returns the
\* failure "All models failed after multiple retries" after exactly four
\* requests, made and logged in the order primary, secondary, tertiary,
\* fallback, and nothing is requested after the fourth.
AllFourRaise == HasClient /\ \A i \in 1..4 : oracle[i].kind = "raise"

C2_AllTiersExhausted ==
    (Returned /\ AllFourRaise) =>
        /\ gen_result = [success |-> FALSE,
                         error |-> "All models failed after multiple retries"]
        /\ [i \in 1..Len(GenRequests) |-> GenRequests[i].model] = TierModels
        /\ LET logged == SelectSeq(gen_events, IsAttemptLog)
           IN [i \in 1..Len(logged) |-> logged[i].about] = TierModels
        /\ Len(SelectSeq(gen_events,
                LAMBDA e : e.ev = "log" /\ e.level = "warning")) = 4
        /\ gen_events[Len(gen_events)].ev # "request"

C2_Witness ==
    /\ Returned /\ AllFourRaise
    /\ oracle[2] = Raise(ErrRateLimit) /\ oracle[4] = Raise(ErrTimeout)

\* C3: when the call succeeds after exactly k failed attempts (k in 0..3), the
\* result's model_used is "{provider}/{model}" of the k-th tier of the static
\* configuration and its content is the content of that tier's completion.
FailedBefore(k) == \A i \in 1..k : ~Answered(i)

C3_ModelUsedOfTier ==
    \A k \in 0..3 :
        (Returned /\ HasClient /\ FailedBefore(k) /\ Answered(k + 1)) =>
            /\ gen_result.success = TRUE
            /\ gen_result.model_used = TierModelUsed[k + 1]
            /\ gen_result.content = oracle[k + 1].choices[1].content
            /\ DOMAIN gen_result = {"success", "content", "model_used"}

C3_Witness ==
    /\ Returned /\ HasClient /\ FailedBefore(2) /\ Answered(3)
    /\ gen_result.model_used = "groq/mixtral-8x7b-32768"

\* C4: within one call the tiers are tried one after the other in rank order:
\* the i-th request goes to the i-th tier (so no tier is tried twice and tier
\* k only after tiers 0..k-1), every request before it has failed and was
\* logged as failed before it was sent, every request carries the call's
\* prompt and data, and no request follows an answered one.
WarningsBefore(pos) ==
    Len(SelectSeq(SubSeq(gen_events, 1, pos),
                  LAMBDA e : e.ev = "log" /\ e.level = "warning"))

RequestPositions == {p \in 1..Len(gen_events) : gen_events[p].ev = "request"}

C4_SequentialInRankOrder ==
    Returned =>
        /\ \A i \in 1..Len(GenRequests) :
              /\ i <= 4
              /\ GenRequests[i].model = TierModels[i]
              /\ GenRequests[i].system = gen_args.system_prompt
              /\ GenRequests[i].user = Str(gen_args.data)
              /\ i < Len(GenRequests) => ~Answered(i)
        /\ \A p \in RequestPositions :
              WarningsBefore(p) = Cardinality({q \in RequestPositions : q < p})

C4_Witness ==
    /\ Returned /\ gen_result.success = TRUE
    /\ Len(GenRequests) = 3
    /\ Len(SelectSeq(gen_events, IsSleep)) = 1

----------------------------------------------------------------------------
(* Properties of the rate limiter *)

\* services.check_rate_limit has just returned
Checked == op.name = "check"

\* an analyze_report call has just returned a success
Analyzed == op.name = "analyze" /\ Succeeded(op.result)

\* the seconds from the window's start to the operation, and those left of
\* the window's 24 hours
Elapsed == op.t - op.before.last_analysis

Remaining == DAY - Elapsed

\* C5: whatever one identity does (checks, analyses, logouts and logins),
\* at most 15 of its successful analyses lie within any 24 hours: at every
\* instant the successes of the last 24 hours number at most the limit.
C5_AtMostLimitPerDay == Len(Recent(succ_times, now)) <= ANALYSIS_LIMIT

\* C6: in every state of a session the count, once it exists, lies between 0
\* and the limit of 15, and analyze_report has run a generation only from a
\* state whose count was below the limit or whose window had expired.
C6_CountWithinLimit ==
    /\ Has(ss, "analysis_count") =>
          /\ ss.analysis_limit = ANALYSIS_LIMIT
          /\ ss.analysis_count \in 0..ss.analysis_limit
    /\ (op.name = "analyze" /\ op.called) =>
          \/ op.before.analysis_count < op.before.analysis_limit
          \/ Elapsed > DAY

C6_Witness ==
    /\ op.name = "submit" /\ Has(op, "before")
    /\ op.before.analysis_count = ANALYSIS_LIMIT
    /\ ss.analysis_count = ANALYSIS_LIMIT
    /\ Len(succ_times) = ANALYSIS_LIMIT

\* C7: a check on a state whose count is below the limit and whose window
\* started at most 24 hours ago returns (True, None) and changes nothing in
\* the session: not the count, not the window start, not the model counters.
C7_AllowedCheckChangesNothing ==
    (Checked /\ op.before.analysis_count < op.before.analysis_limit
             /\ Elapsed \in 0..DAY) =>
        /\ op.ret = <<TRUE, NoMessage>>
        /\ ss.analysis_count = op.before.analysis_count
        /\ ss.last_analysis = op.before.last_analysis
        /\ ss.models_used = op.before.models_used
        /\ ss = op.before

C7_Witness ==
    /\ Checked
    /\ op.before.analysis_count = ANALYSIS_LIMIT - 1
    /\ Elapsed = 2 * HOUR
    /\ Has(op.before.models_used, SECONDARY_USED)
    /\ op.ret = <<TRUE, NoMessage>>

\* C8: a check on a state whose count has reached the limit and whose window
\* started between 0 and 24 hours ago returns False with the message
\* "Daily limit reached. Reset in {H}h {M}m", H the whole hours and M the
\* remaining whole minutes of the time left until the window start plus 24
\* hours, and changes nothing.
C8_DeniedWithTimeLeft ==
    (Checked /\ op.before.analysis_count >= op.before.analysis_limit
             /\ Elapsed \in 0..DAY) =>
        /\ op.ret = <<FALSE,
                      "Daily limit reached. Reset in "
                          \o ToString(Remaining \div HOUR) \o "h "
                          \o ToString((Remaining % HOUR) \div MINUTE) \o "m">>
        /\ ss = op.before

\* C9 as stated: a check made 24 hours or more after the window start, 24
\* hours to the second included, sets the count to 0 and the window start to
\* the time of the check and returns (True, None).
C9_ResetFromADay ==
    (Checked /\ Elapsed >= DAY) =>
        /\ ss.analysis_count = 0
        /\ ss.last_analysis = op.t
        /\ op.ret = <<TRUE, NoMessage>>

\* C9: a check made more than 24 hours after the window start sets the count
\* to 0 and the window start to the time of the check and returns
\* (True, None), whatever the count was, and changes nothing else; a check
\* made 24 hours to the second after the window start resets nothing and is
\* allowed exactly when the count is below the limit.
C9_ResetPastADay ==
    /\ (Checked /\ Elapsed > DAY) =>
          /\ ss.analysis_count = 0
          /\ ss.last_analysis = op.t
          /\ op.ret = <<TRUE, NoMessage>>
          /\ ss = [op.before EXCEPT !.analysis_count = 0,
                                    !.last_analysis = op.t]
    /\ (Checked /\ Elapsed = DAY) =>
          /\ ss = op.before
          /\ op.ret[1] = (op.before.analysis_count < op.before.analysis_limit)

C9_Witness ==
    /\ Checked
    /\ Elapsed = DAY + 1
    /\ op.before.analysis_count = ANALYSIS_LIMIT
    /\ ss.analysis_count = 0
    /\ ss.last_analysis = now

\* the model counters after one more result of model m
UsedAfter(used, m) ==
    [k \in DOMAIN used \cup {m} |->
        IF k # m THEN used[k]
        ELSE IF m \in DOMAIN used THEN used[m] + 1 ELSE 1]

\* the seconds the call paused between its attempts
Paused == 2 * Len(SelectSeq(gen_events, IsSleep))

\* C10 as stated: a successful analyze_report leaves the count exactly 1
\* above the count it was called with, the window start at the current time,
\* and the counter of the model that answered 1 higher (1 when it had none),
\* every other model's counter as it was.
C10_CountUpByOne ==
    Analyzed =>
        /\ ss.analysis_count = op.before.analysis_count + 1
        /\ ss.last_analysis = now
        /\ ss.models_used = UsedAfter(op.before.models_used,
                                      op.result.model_used)

\* C10: a successful analyze_report leaves the count exactly 1 above the
\* count its own rate-limit check left (the count it was called with, or 0
\* when the call came more than 24 hours after the window start), the window
\* start at the time the result was recorded, and the counter of the model
\* that answered 1 higher (1 when it had none), every other model's counter
\* and the limit as they were.
C10_CountUpByOneFromCheck ==
    Analyzed =>
        /\ ss.analysis_count =
              (IF Elapsed > DAY THEN 0 ELSE op.before.analysis_count) + 1
        /\ ss.last_analysis = op.t + Paused
        /\ ss.last_analysis = now
        /\ ss.models_used = UsedAfter(op.before.models_used,
                                      op.result.model_used)
        /\ ss.analysis_limit = op.before.analysis_limit

C10_Witness ==
    /\ Analyzed
    /\ Elapsed = DAY + 1
    /\ op.before.analysis_count = 7
    /\ ss.analysis_count = 1
    /\ op.result.model_used = SECONDARY_USED
    /\ ~Has(op.before.models_used, SECONDARY_USED)
    /\ ss.models_used[SECONDARY_USED] = 1

\* C11: while every check and every analysis of a login comes less than 24
\* hours after the previous successful analysis the count is never reset (it
\* is the number of the login's successes), so once 15 analyses have
\* succeeded every further check is refused and no further submission is
\* admitted, however long ago the first success was.
C11_AnchoredToLatestSuccess ==
    /\ Has(ss, "analysis_count") => ss.analysis_count = Len(succ_times)
    /\ (op.name = "check" /\ Len(succ_times) >= ANALYSIS_LIMIT) =>
          op.ret[1] = FALSE
    /\ op.name = "analyze" => op.before.analysis_count < ANALYSIS_LIMIT
    /\ Len(succ_times) <= ANALYSIS_LIMIT

C11_Witness ==
    /\ op.name = "submit" /\ Has(op, "before")
    /\ op.shown = LimitMessage(1, 0)
    /\ Len(succ_times) = ANALYSIS_LIMIT
    /\ now - succ_times[1] > DAY
    /\ ss.analysis_count = ANALYSIS_LIMIT

\* the 15th analysis has succeeded
LastUsed == succ_times # <<>>

----------------------------------------------------------------------------
(* Properties of analyze_report *)

\* an analyze_report call has just returned or raised
Called == op.name = "analyze_report"

\* C13: when the rate-limit check refuses (the count has reached the limit
\* and the window started at most 24 hours ago) analyze_report returns the
\* failure {success: False, error: the check's message}, sends no request to
\* the provider and pauses for no retry, and leaves the whole session state,
\* count, window start, model counters and knowledge base, as it was.
C13_DeniedCallDoesNothing ==
    (Called /\ op.before.analysis_count >= op.before.analysis_limit
            /\ Elapsed \in 0..DAY) =>
        /\ op.result =
              [success |-> FALSE,
               error |-> check_rate_limit(op.before, op.t).ret[2]]
        /\ check_rate_limit(op.before, op.t).ret[1] = FALSE
        /\ ~op.called
        /\ gen_events = <<>>
        /\ now = op.t
        /\ ss.analysis_count = op.before.analysis_count
        /\ ss.last_analysis = op.before.last_analysis
        /\ ss.models_used = op.before.models_used
        /\ ss.knowledge_base = op.before.knowledge_base
        /\ ss = op.before

C13_Witness ==
    /\ Called
    /\ op.before.analysis_count = ANALYSIS_LIMIT
    /\ Elapsed = HOUR
    /\ op.before.knowledge_base # <<>>
    /\ Truthy(op.chat_history)
    /\ op.result = [success |-> FALSE,
                    error |-> "Daily limit reached. Reset in 23h 0m"]

\* the session state the call's own rate-limit check leaves: the count 0 and
\* the window started at the call when it comes more than 24 hours after the
\* window start, the state before otherwise
AfterCheck ==
    IF Elapsed > DAY
    THEN [op.before EXCEPT !.analysis_count = 0, !.last_analysis = op.t]
    ELSE op.before

\* the provider answered the last request of the call with a message
GenerationSucceeded ==
    LET n == Len(RequestsOf(gen_events))
    IN IF n = 0 THEN FALSE ELSE Answered(n)

\* C14: when generate_analysis returns a failure, analyze_report returns it
\* and leaves the count, the window start, the model counters and the
\* knowledge base as its rate-limit check left them; the session state
\* differs from what the check left only after a generation that succeeded.
C14_FailureChangesNothing ==
    /\ (Called /\ op.called /\ ~GenerationSucceeded) =>
          /\ op.result = [success |-> FALSE, error |-> ALL_FAILED]
          /\ ss.analysis_count = AfterCheck.analysis_count
          /\ ss.last_analysis = AfterCheck.last_analysis
          /\ ss.models_used = AfterCheck.models_used
          /\ ss.knowledge_base = AfterCheck.knowledge_base
          /\ ss = AfterCheck
    /\ (Called /\ ss # AfterCheck) => (op.called /\ GenerationSucceeded)

C14_Witness ==
    /\ Called /\ op.called
    /\ op.result = [success |-> FALSE, error |-> ALL_FAILED]
    /\ Len(RequestsOf(gen_events)) = 4
    /\ Elapsed = DAY + 1
    /\ op.before.analysis_count = ANALYSIS_LIMIT
    /\ ss.analysis_count = 0
    /\ ss.knowledge_base # <<>>

----------------------------------------------------------------------------
(* Properties of the knowledge base *)

\* the snippets stored for an indicator and a profile key, none when absent
Stored(kb, indicator, profile) ==
    IF OHas(kb, indicator)
    THEN IF OHas(OGet(kb, indicator), profile)
         THEN OGet(OGet(kb, indicator), profile) ELSE <<>>
    ELSE <<>>

\* "{age}-{gender}" of a call's data
ProfileKey(data) == data.age \o "-" \o data.gender

ProfileKeys == {"52-Male", "30-Female", "41-Male"}

\* an indicator occurs, whatever the case, in a text
Mentions(text, indicator) == Contains(Lower(text), indicator)

\* the lines of a text that mention an indicator
MentioningLines(text, indicator) ==
    SelectSeq(Split(text), LAMBDA l : Mentions(l, indicator))

RECURSIVE Appended(_, _, _)
\* the snippets a sequence of calls appends for an indicator and a profile
Appended(updates, indicator, profile) ==
    IF updates = <<>> THEN <<>>
    ELSE LET u == updates[Len(updates)]
             earlier == Appended(SubSeq(updates, 1, Len(updates) - 1),
                                 indicator, profile)
         IN IF /\ ProfileKey(u[1]) = profile
               /\ Mentions(u[1].report, indicator)
               /\ Mentions(u[2], indicator)
            THEN Append(earlier, MentioningLines(u[2], indicator)[1])
            ELSE earlier

\* the last three, or fewer, of a sequence
LastThree(seq) ==
    IF Len(seq) > 3 THEN SubSeq(seq, Len(seq) - 2, Len(seq)) ELSE seq

\* C15: after any sequence of updates every list of snippets of the
\* knowledge base holds at most 3 snippets and is the last 3 (or fewer) of
\* the snippets appended for its indicator and profile key, in the order
\* they were appended.
C15_KeepsLastThree ==
    \A i \in 1..Len(key_indicators), profile \in ProfileKeys :
        LET stored == Stored(ss.knowledge_base, key_indicators[i], profile)
        IN /\ Len(stored) <= 3
           /\ stored = LastThree(Appended(op.updates, key_indicators[i],
                                          profile))

C15_Witness ==
    /\ Len(Appended(op.updates, key_indicators[5], "52-Male")) = 4
    /\ Stored(ss.knowledge_base, key_indicators[5], "52-Male") =
          << <<"h","d","l"," ","u","p">>, <<"H","D","L"," ","l","o","w">>,
             <<"h","d","l"," ","u","p">> >>

\* C16: an update with a report and an analysis appends, for each indicator
\* of the vocabulary that occurs (whatever the case) in both texts, the first
\* line of the analysis that mentions the indicator to the list of the
\* indicator and the profile key "{age}-{gender}" (the oldest of 3 stored
\* snippets making room), and changes no other list. The report
\* "Hemoglobin: 14.2 g/dL" of a Female of 30 with the analysis line
\* "Hemoglobin is within normal range." leaves exactly that line under
\* "hemoglobin" and "30-Female".
C16_FirstMentioningLine ==
    /\ op.updates # <<>> =>
          LET u == op.updates[Len(op.updates)]
          IN \A i \in 1..Len(key_indicators), profile \in ProfileKeys :
                LET indicator == key_indicators[i]
                    was == Stored(op.before, indicator, profile)
                    is == Stored(ss.knowledge_base, indicator, profile)
                IN IF /\ profile = ProfileKey(u[1])
                      /\ Mentions(u[1].report, indicator)
                      /\ Mentions(u[2], indicator)
                   THEN is = LastThree(Append(was,
                                  MentioningLines(u[2], indicator)[1]))
                   ELSE is = was
    /\ op.updates = <<<<DATA_ANN, ANALYSIS_HEMO>>>> =>
          /\ Stored(ss.knowledge_base, key_indicators[1], "30-Female") =
                << <<"H","e","m","o","g","l","o","b","i","n"," ","i","s"," ",
                     "w","i","t","h","i","n"," ","n","o","r","m","a","l"," ",
                     "r","a","n","g","e",".">> >>
          /\ ss.knowledge_base =
                << <<key_indicators[1],
                     << <<"30-Female",
                          Stored(ss.knowledge_base, key_indicators[1],
                                 "30-Female")>> >> >> >>

C16_Witness ==
    /\ op.updates = <<<<DATA_ANN, ANALYSIS_HEMO>>>>
    /\ Len(MentioningLines(ANALYSIS_HEMO, key_indicators[1])) = 2
    /\ Len(Stored(ss.knowledge_base, key_indicators[1], "30-Female")) = 1

\* C17: the snippet a successful analyze_report stores is filed under the
\* profile key "{age}-{gender}" of the data it was handed, a field the data
\* lacks reading "unknown" ("unknown-unknown" when it lacks both).
C17_MissingFieldsReadUnknown ==
    (/\ Called /\ Succeeded(op.result)
     /\ Has(op.data, "report")
     /\ Mentions(op.data.report, key_indicators[5])
     /\ Mentions(op.result.content, key_indicators[5])) =>
        LET key == Get(op.data, "age", "unknown") \o "-"
                       \o Get(op.data, "gender", "unknown")
            was == Stored(op.before.knowledge_base, key_indicators[5], key)
            is == Stored(ss.knowledge_base, key_indicators[5], key)
        IN is = LastThree(Append(was,
                     MentioningLines(op.result.content, key_indicators[5])[1]))

----------------------------------------------------------------------------
(* Properties of the prompt *)

\* C18: when analyze_report is given no chat history, or an empty one, every
\* request it sends carries the system prompt as it was handed in, character
\* for character, whatever the knowledge base holds.
C18_PromptUnchangedWithoutHistory ==
    (Called /\ (~op.chat_history.given \/ op.chat_history.messages = <<>>)) =>
        \A i \in 1..Len(RequestsOf(gen_events)) :
            RequestsOf(gen_events)[i].system = COMPREHENSIVE_ANALYST

C18_Witness ==
    /\ Called /\ op.chat_history = History(<<>>)
    /\ Len(RequestsOf(gen_events)) = 2
    /\ _get_knowledge_base_context(op.before, _preprocess_data(op.data)) # <<>>
    /\ RequestsOf(gen_events)[2].system = COMPREHENSIVE_ANALYST

----------------------------------------------------------------------------
(* Properties of the session recall *)

Recalled == op.name = "recall"

\* the messages of the history recalled
Messages == gen_args.chat_history.messages

\* the lines of the recall; each exchange is a "User: " line and an
\* "Assistant: " line, and an empty line parts two exchanges
RecallLines == IF op.text = <<>> THEN <<>> ELSE Split(op.text)

RecallPairs == (Len(RecallLines) + 1) \div 3

USER_LABEL == <<"U","s","e","r",":"," ">>
AI_LABEL == <<"A","s","s","i","s","t","a","n","t",":"," ">>

HasLabel(line, label) ==
    Len(line) >= Len(label) /\ SubSeq(line, 1, Len(label)) = label

\* the rendered user and assistant message of the k-th exchange recalled
RecalledUser(k) ==
    SubSeq(RecallLines[3 * k - 2], Len(USER_LABEL) + 1,
           Len(RecallLines[3 * k - 2]))

RecalledAi(k) ==
    SubSeq(RecallLines[3 * k - 1], Len(AI_LABEL) + 1,
           Len(RecallLines[3 * k - 1]))

WellFormedRecall ==
    /\ Len(RecallLines) \in {0, 2, 5}
    /\ \A k \in 1..RecallPairs :
          /\ HasLabel(RecallLines[3 * k - 2], USER_LABEL)
          /\ HasLabel(RecallLines[3 * k - 1], AI_LABEL)
    /\ Len(RecallLines) = 5 => RecallLines[3] = <<>>

\* r renders the message m: m itself when it has at most 200 characters,
\* otherwise a prefix of m followed by "...", 200 characters at most
Renders(r, m) ==
    /\ Len(r) <= 200
    /\ Len(m) <= 200 => r = m
    /\ Len(m) > 200 =>
          /\ Len(r) >= 3
          /\ SubSeq(r, Len(r) - 2, Len(r)) = ELLIPSIS
          /\ SubSeq(r, 1, Len(r) - 3) = SubSeq(m, 1, Len(r) - 3)

\* the positions of the user messages that an assistant message follows
PairPositions ==
    {p \in 1..(Len(Messages) - 1) :
        Messages[p].role = "user" /\ Messages[p + 1].role = "assistant"}

\* the k-th exchange recalled renders the messages at p and p + 1
RecallsPair(k, p) ==
    /\ Renders(RecalledUser(k), Messages[p].content)
    /\ Renders(RecalledAi(k), Messages[p + 1].content)

Above(P, p) == Cardinality({q \in P : q > p})

\* C20: the recall of any history holds the min(2, n) latest of the n
\* exchanges of the history (a user message with the assistant message
\* right after it), the earlier first: none is recalled only when the
\* history has none, and of 3 exchanges the latest 2 are recalled.
C20_LatestPairsOfAnyHistory ==
    Recalled =>
        /\ WellFormedRecall
        /\ RecallPairs = IF Cardinality(PairPositions) >= 2 THEN 2
                         ELSE Cardinality(PairPositions)
        /\ \A k \in 1..RecallPairs :
              \E p \in PairPositions :
                  /\ Above(PairPositions, p) = RecallPairs - k
                  /\ RecallsPair(k, p)

----------------------------------------------------------------------------
(* Properties of the knowledge recall, checked under SpecPrompt *)

Composed == op.name = "compose"

\* the bullets of the knowledge recall of the call
KnowledgeLines == IF op.knowledge = <<>> THEN <<>> ELSE Split(op.knowledge)

\* the indicators of the knowledge base
KbIndicators == {ss.knowledge_base[k][1] : k \in 1..Len(ss.knowledge_base)}

\* the snippets stored under an indicator, and those of them stored for
\* the profile of the patient of the call and for the other profiles
SnippetsOf(indicator, keys) ==
    UNION {{Stored(ss.knowledge_base, indicator, p)[i] :
              i \in 1..Len(Stored(ss.knowledge_base, indicator, p))} :
           p \in keys}

Own == {ProfileKey(gen_args.data)}

Others == ProfileKeys \ Own

\* a line is the bullet of an indicator with a label and one of some snippets
IsBullet(line, indicator, label, snippets) ==
    \E snippet \in snippets :
        line = <<"-", " ">> \o indicator \o label \o snippet

SimilarBullet(line, indicator) ==
    IsBullet(line, indicator, SIMILAR_PROFILE, SnippetsOf(indicator, Own))

OtherBullet(line, indicator) ==
    IsBullet(line, indicator, OTHER_PROFILE, SnippetsOf(indicator, Others))

\* C21: the knowledge recall holds at most 5 bullets; every bullet is the
\* bullet of an indicator that occurs, whatever the case, in the report of
\* the call, with a snippet stored under that indicator in the knowledge
\* base; among the bullets of one indicator every "similar patient profile"
\* bullet comes before every "other patient profile" bullet.
C21_RecallOfStoredSnippets ==
    Composed =>
        /\ Len(KnowledgeLines) <= 5
        /\ \A n \in 1..Len(KnowledgeLines) :
              \E indicator \in KbIndicators :
                  /\ Mentions(gen_args.data.report, indicator)
                  /\ \/ SimilarBullet(KnowledgeLines[n], indicator)
                     \/ OtherBullet(KnowledgeLines[n], indicator)
        /\ \A indicator \in KbIndicators :
              \A m \in 1..Len(KnowledgeLines), n \in 1..Len(KnowledgeLines) :
                  /\ SimilarBullet(KnowledgeLines[m], indicator)
                  /\ OtherBullet(KnowledgeLines[n], indicator)
                  => m < n

\* 6 snippets are stored under the first indicator, 3 of them for the
\* profile of the patient: 3 similar and 2 other bullets are recalled
C21_Witness ==
    /\ Composed
    /\ Len(KnowledgeLines) = 5
    /\ Len(ss.knowledge_base) = 2
    /\ Cardinality(SnippetsOf(ss.knowledge_base[1][1], ProfileKeys)) = 6
    /\ SimilarBullet(KnowledgeLines[3], ss.knowledge_base[1][1])
    /\ OtherBullet(KnowledgeLines[4], ss.knowledge_base[1][1])
    /\ ss.knowledge_base[1][2][1][1] \notin Own

\* a line is a "similar" or an "other" bullet of some indicator
AnySimilar(line) == \E indicator \in KbIndicators : SimilarBullet(line, indicator)

AnyOther(line) == \E indicator \in KbIndicators : OtherBullet(line, indicator)

\* the bullets of the snippets stored for the patient's profile under the
\* indicators the report mentions
SimilarBullets ==
    UNION {{<<"-", " ">> \o indicator \o SIMILAR_PROFILE \o snippet :
               snippet \in SnippetsOf(indicator, Own)} :
           indicator \in {i \in KbIndicators :
                              Mentions(gen_args.data.report, i)}}

\* C22: in the whole recall every "similar patient profile" bullet comes
\* before every "other patient profile" bullet, and no snippet of the
\* patient's profile is left out while a snippet of another profile is
\* recalled.
C22_SimilarFirstOverall ==
    Composed =>
        /\ \A m \in 1..Len(KnowledgeLines), n \in 1..Len(KnowledgeLines) :
              AnySimilar(KnowledgeLines[m]) /\ AnyOther(KnowledgeLines[n])
              => m < n
        /\ (\E n \in 1..Len(KnowledgeLines) : AnyOther(KnowledgeLines[n]))
           => \A b \in SimilarBullets :
                 \E n \in 1..Len(KnowledgeLines) : KnowledgeLines[n] = b

\* the part of the composed prompt after the base system prompt
AfterBase ==
    SubSeq(op.prompt, Len(gen_args.system_prompt) + 1, Len(op.prompt))

\* the positions at which a text occurs in another
Occurrences(hay, needle) ==
    {i \in 0..(Len(hay) - Len(needle)) :
        \A j \in 1..Len(needle) : hay[i + j] = needle[j]}

\* C23: the composed prompt begins with the base system prompt unchanged;
\* the heading of the knowledge recall occurs in it exactly when the
\* knowledge recall is not empty and the heading of the session recall
\* exactly when the session recall is not empty, the knowledge section
\* before the session section; each section is its heading followed by its
\* content, and the prompt holds nothing else.
C23_BaseThenKnowledgeThenSession ==
    Composed =>
        /\ SubSeq(op.prompt, 1, Len(gen_args.system_prompt))
              = gen_args.system_prompt
        /\ Occurrences(AfterBase, KB_HEADING) # {} <=> op.knowledge # <<>>
        /\ Occurrences(AfterBase, SESSION_HEADING) # {} <=> op.session # <<>>
        /\ \A k \in Occurrences(AfterBase, KB_HEADING),
              n \in Occurrences(AfterBase, SESSION_HEADING) : k < n
        /\ AfterBase =
              (IF op.knowledge # <<>> THEN KB_HEADING \o op.knowledge
               ELSE <<>>)
              \o (IF op.session # <<>> THEN SESSION_HEADING \o op.session
                  ELSE <<>>)

\* a prompt with both sections
C23_Witness ==
    /\ Composed
    /\ op.knowledge # <<>>
    /\ op.session # <<>>
    /\ Occurrences(AfterBase, KB_HEADING) = {0}
    /\ Occurrences(AfterBase, SESSION_HEADING)
          = {Len(KB_HEADING) + Len(op.knowledge)}

----------------------------------------------------------------------------
(* Properties of the results of analyze_report, checked under SpecErr *)

\* analyze_report has returned a result (no exception has left it)
ReturnedResult == op.name = "analyze_report" /\ Has(op.result, "success")

\* the messages check_rate_limit can deny with
LimitMessages == {LimitMessage(h, m) : h \in 0..23, m \in 0..59}

\* the texts of the exceptions of the call's requests, as raised and as
\* logged
ProviderErrors ==
    LET raised == {oracle[i].text :
                      i \in {j \in 1..Len(oracle) : oracle[j].kind = "raise"}}
                  \cup {ErrIndex}
    IN raised \cup {Lower(t) : t \in raised}

\* C24: a failure that analyze_report returns carries the message of the
\* rate limit with its countdown when the call was denied and otherwise the
\* one message "All models failed after multiple retries"; whatever the
\* four tiers raised, the text of no provider exception is the error or
\* the content of a returned result.
C24_OnlyTwoFailureMessages ==
    ReturnedResult =>
        /\ ~op.result.success =>
              /\ op.result.error \in LimitMessages \cup {ALL_FAILED}
              /\ op.called <=> op.result.error = ALL_FAILED
              /\ op.result.error \notin {Flat(t) : t \in ProviderErrors}
        /\ op.result.success => op.result.content \notin ProviderErrors

\* the four tiers raise four different exceptions, two of them about the
\* rate limit of the provider
C24_Witness ==
    /\ ReturnedResult
    /\ op.called
    /\ op.result = Failure(ALL_FAILED)
    /\ oracle[1] = Raise(ErrRateLimit)
    /\ oracle[2] = Raise(ErrTimeout)
    /\ oracle[3] = Raise(ErrQuota)
    /\ oracle[4] = Completion(<<>>)

\* C25: every result that generate_analysis or analyze_report returns is
\* either a success (success is true, content and model_used are present,
\* no error) or a failure (success is false, error is present, no content
\* and no model_used).
C25_SuccessOrFailure ==
    ReturnedResult =>
        \/ /\ op.result.success = TRUE
           /\ DOMAIN op.result = {"success", "content", "model_used"}
        \/ /\ op.result.success = FALSE
           /\ DOMAIN op.result = {"success", "error"}

\* a failure after a request to every tier; the same call in a session at
\* its limit is denied
C25_Witness ==
    /\ ReturnedResult
    /\ op.called
    /\ DOMAIN op.result = {"success", "error"}
    /\ Len(RequestsOf(gen_events)) = 4

----------------------------------------------------------------------------
(* Properties of two analyze_report calls at the same time, checked under
   SpecRace *)

\* the calls whose generation has succeeded and whose count is written
Recorded ==
    {p \in Pipelines :
        gen_args[p].pc \in {"kb_enter", "kb_test", "kb_pop", "kb_append", "done"}
        /\ Has(gen_args[p].result, "success") /\ gen_args[p].result.success}

BothDone == \A p \in Pipelines : gen_args[p].pc = "done"

\* C26: while two analyze_report calls of one session interleave,
\* analysis_count never exceeds analysis_limit, it has grown by the number
\* of successful generations once both calls have returned, and no list of
\* the knowledge base holds more than 3 snippets.
C26_InterleavingKeepsInvariants ==
    op.name = "race" =>
        /\ ss.analysis_count <= ss.analysis_limit
        /\ BothDone =>
              ss.analysis_count
                  = op.before.analysis_count + Cardinality(Recorded)
        /\ \A k \in 1..Len(ss.knowledge_base) :
              \A j \in 1..Len(ss.knowledge_base[k][2]) :
                  Len(ss.knowledge_base[k][2][j][2]) <= 3

----------------------------------------------------------------------------
(* Properties of generate_analysis without a client, checked under SpecGen *)

\* the tiers the call has skipped for want of a client, in order
Skipped ==
    SelectSeq(gen_events,
        LAMBDA e : e.ev = "log" /\ e.level = "error" /\ e.what = "no client")

\* C27: a call made while no client is registered for the provider of the
\* tiers skips each of the four tiers once, in rank order, without a
\* request, an attempt log or a pause, and returns the failure "All models
\* failed after multiple retries": every skip takes one of the 4 attempts.
C27_SkipsTiersWithoutClient ==
    (Returned /\ ~HasClient) =>
        /\ GenRequests = <<>>
        /\ gen_events = Skipped
        /\ Len(Skipped) = 4
        /\ \A i \in 1..Len(Skipped) :
              Skipped[i].about = MODEL_CONFIG[TierOf(i - 1)].provider
        /\ gen_result = Failure(ALL_FAILED)

C27_Witness ==
    /\ Returned
    /\ clients = {}
    /\ Len(Skipped) = 4
    /\ gen_result.success = FALSE
    /\ oracle[1] = Completion(<<[content |-> ANALYSIS_HEMO]>>)

----------------------------------------------------------------------------
(* Properties of two calls that differ in further keys, checked under
   SpecTwin *)

Twinned == op.name = "both"

\* C28: two analyze_report calls from the same session state whose data
\* agree on patient_name, age, gender and report and differ in other keys
\* send the same requests to the provider, return the same result and leave
\* the same knowledge base and the same usage.
C28_OnlyFourFieldsReachTheCore ==
    Twinned =>
        /\ RequestsOf(op.twin.events) = RequestsOf(gen_events)
        /\ op.twin.events = gen_events
        /\ op.twin.result = gen_result
        /\ op.twin.ss = ss

\* a call with a history whose prompt recalls the knowledge base, answered
\* with an analysis that is stored, on data with notes that name a further
\* indicator
C28_Witness ==
    /\ Twinned
    /\ Has(op.extra, "notes")
    /\ Len(RequestsOf(gen_events)) = 2
    /\ Len(RequestsOf(gen_events)[1].system) > Len(COMPREHENSIVE_ANALYST)
    /\ Succeeded(gen_result)
    /\ ss.knowledge_base # op.before.knowledge_base

----------------------------------------------------------------------------
(* Properties of the running call, checked under SpecLive *)

\* the call is over: it has returned or an exception has left it
Ended == op.name = "live" /\ gen_args.pc = "done"

\* the call ends, whatever the provider answers
EventuallyEnded == <>Ended

\* C29: every analyze_report call eventually returns a result, a success
\* or a failure, when the provider answers every request by returning or
\* raising.
C29_EventuallyReturnsResult ==
    <>(Ended /\ Has(gen_result, "success"))

\* the positions of the requests in the events of the call
LiveRequestAt ==
    {p \in 1..Len(gen_events) : IsRequest(gen_events[p])}

\* the position of the n-th request
RequestPos(n) ==
    CHOOSE p \in LiveRequestAt :
        Cardinality({q \in LiveRequestAt : q <= p}) = n

\* the pauses between the n-th request and the next one, or the end
PausesAfter(n) ==
    Cardinality({p \in 1..Len(gen_events) :
        /\ IsSleep(gen_events[p])
        /\ p > RequestPos(n)
        /\ \A q \in LiveRequestAt : q > RequestPos(n) => p < q})

\* the n-th attempt failed: the request raised, or its completion has no choice
AttemptFailed(n) ==
    oracle[n].kind = "raise" \/ Len(oracle[n].choices) = 0

\* the text of the exception the n-th attempt ended with names the rate
\* limit or the quota, in whatever case
Throttled(n) ==
    /\ oracle[n].kind = "raise"
    /\ \/ Mentions(oracle[n].text, RATE_LIMIT)
       \/ Mentions(oracle[n].text, QUOTA)

\* C30: in a call that has ended, one pause of 2 seconds follows the n-th
\* attempt when it failed with an error text that contains "rate limit" or
\* "quota" in whatever case, and no pause follows it otherwise; after every
\* failed attempt but the fourth the next request goes to the next tier and
\* after the fourth the call fails; no pause is taken anywhere else, so none
\* after a success or a skipped tier, and the clock has moved by the pauses.
C30_PauseIffRateLimited ==
    Ended =>
        /\ \A n \in 1..Len(oracle) :
              /\ PausesAfter(n) =
                    IF AttemptFailed(n) /\ Throttled(n) THEN 1 ELSE 0
              /\ AttemptFailed(n) /\ n < 4 =>
                    /\ Len(oracle) > n
                    /\ gen_events[RequestPos(n + 1)].model = TierModels[n + 1]
              /\ AttemptFailed(n) /\ n = 4 => gen_result = Failure(ALL_FAILED)
              /\ ~AttemptFailed(n) => Len(oracle) = n
        /\ Len(SelectSeq(gen_events, IsSleep))
              = Cardinality({n \in 1..Len(oracle) : Throttled(n)})
        /\ now = AgentNow + 2 * Len(SelectSeq(gen_events, IsSleep))
        /\ ~HasClient => SelectSeq(gen_events, IsSleep) = <<>>

\* pauses after the first and the fourth attempt only
C30_Witness ==
    /\ Ended
    /\ oracle = <<Raise(ErrRateLimit), Raise(ErrTimeout),
                  Raise(ErrRateHyphen), Raise(ErrQuota)>>
    /\ PausesAfter(1) = 1 /\ PausesAfter(2) = 0
    /\ PausesAfter(3) = 0 /\ PausesAfter(4) = 1
    /\ now = AgentNow + 4

----------------------------------------------------------------------------
(* Properties of answers without analysis text, checked under SpecErr *)

\* the n-th answer holds no analysis text: no choice, or a null content
NoText(n) ==
    /\ oracle[n].kind = "completion"
    /\ \/ Len(oracle[n].choices) = 0
       \/ oracle[n].choices[1].content = NoContent

\* C31: an answer without analysis text (no choice, or a message whose
\* content is null) counts as a failure of its tier and the next tier is
\* tried: a success carries the text of the first answer that has text, the
\* call fails only when no tier answers with text, and no exception leaves
\* the call, so it never fails with analysis_count already incremented.
C31_NoTextIsTierFailure ==
    (op.name = "analyze_report" /\ op.called) =>
        /\ Has(op.result, "success")
        /\ op.result.success => op.result.content # NoContent
        /\ ~Succeeded(op.result) =>
              ss.analysis_count = op.before.analysis_count
        /\ (\E n \in 1..4 : oracle[n].kind = "completion" /\ ~NoText(n))
              => Succeeded(op.result)

----------------------------------------------------------------------------
(* Properties of requests without report text, checked under SpecBlank *)

\* the data of the call has no report, or an empty one
Blank == ~Has(op.data, "report") \/ op.data.report = <<>>

\* the prompts of the call: the system messages sent by analyze_report, the
\* prompt composed by _build_enhanced_prompt
BlankPrompts ==
    IF op.name = "direct" THEN {op.prompt}
    ELSE {RequestsOf(gen_events)[n].system :
             n \in 1..Len(RequestsOf(gen_events))}

\* C32: a call whose data has no report or an empty report ends without an
\* exception, leaves the knowledge base as it was and composes prompts
\* without the knowledge section, whatever the knowledge base holds.
C32_BlankReportTolerated ==
    (op.name \in {"analyze_report", "direct"} /\ Blank) =>
        /\ op.name = "analyze_report" => Has(op.result, "success")
        /\ ss.knowledge_base = op.before.knowledge_base
        /\ \A prompt \in BlankPrompts :
              Occurrences(prompt, KB_HEADING) = {}

\* an analysis of data without a report in a session whose knowledge base
\* holds snippets, with a history that is recalled
C32_Witness ==
    /\ op.name = "analyze_report"
    /\ ~Has(op.data, "report")
    /\ Succeeded(op.result)
    /\ op.before.knowledge_base # <<>>
    /\ \E prompt \in BlankPrompts :
          Occurrences(prompt, SESSION_HEADING) # {}

----------------------------------------------------------------------------
(* Properties of the report text of an upload, checked under SpecPdf *)

\* extract_text_from_pdf was called on the uploaded file
Extracted == op.name = "get_report_contents" /\ op.extracted # NoneText

\* the text of the uploaded document
DocumentText ==
    IF gen_args.uploaded_file.pdf.kind = "pdf"
       /\ \A i \in 1..Len(gen_args.uploaded_file.pdf.pages) :
             gen_args.uploaded_file.pdf.pages[i] # NoneText
    THEN PageTexts(gen_args.uploaded_file.pdf.pages)
    ELSE NoneText

\* extract_text_from_pdf returned a message, not the text of the document
ExtractedMessage == Extracted /\ op.extracted # DocumentText

\* C33: whenever extract_text_from_pdf returns an error message instead of
\* the text of the document, get_report_contents shows that message and
\* returns None: the message is not handed on as report text.
C33_ErrorMessageNeverReportText ==
    ExtractedMessage =>
        /\ op.contents = NoneText
        /\ op.shown = <<op.extracted>>

----------------------------------------------------------------------------
(* Properties of the page runs, checked under SpecPage *)

Ran == op.name = "run"

\* the run started with a recorded activity, this long ago
Idle == op.t - op.before.last_activity

AuthenticatedContent == {GREETING, SIDEBAR, CHAT_HISTORY, ANALYSIS_FORM, WELCOME}

\* C34: a page run that starts more than SESSION_TIMEOUT_IN_MINUTES (30
\* minutes) after the last recorded activity leaves nothing but
\* session_initialized in the session state, validates nothing and renders
\* nothing before it reruns the script, and a run that starts without a
\* stored user renders no authenticated content; a run that starts within
\* the timeout reaches the update of last_activity with the state it started
\* from and sets last_activity to the time of the run.
C34_IdleTimeoutClears ==
    Ran =>
       /\ Has(op.before, "last_activity") =>
             IF Idle > SESSION_TIMEOUT_IN_MINUTES * MINUTE
             THEN /\ ss = [session_initialized |-> TRUE]
                  /\ op.rerun
                  /\ op.validated = <<>>
                  /\ op.rendered = {}
             ELSE /\ op.touched # <<>>
                  /\ op.touched[1] = Put(op.before, "last_activity", op.t)
       /\ ~Has(op.before, "user") =>
             op.rendered \cap AuthenticatedContent = {}

\* a logged-in user with an open chat session comes back after more than the
\* timeout and is logged out
C34_Witness ==
    /\ Ran
    /\ Has(op.before, "user")
    /\ Has(op.before, "current_session")
    /\ Has(op.before, "last_activity")
    /\ Idle = SESSION_TIMEOUT_IN_MINUTES * MINUTE + 1
    /\ ~Has(ss, "user")
    /\ op.shown = <<SESSION_EXPIRED>>

\* the run started from the state a successful sign-up left: the user record
\* of sign_up and the authenticated flag
AfterSignUp ==
    /\ Ran
    /\ Has(op.before, "authenticated")
    /\ Get(op.before, "user", NoValue) = SIGNUP_USER

\* C35: the page run that follows a successful sign-up keeps the stored user
\* and shows the main app (greeting and sidebar), not the login page.
C35_SignUpAuthenticates ==
    AfterSignUp =>
       /\ Get(ss, "user", NoValue) = SIGNUP_USER
       /\ LOGIN_PAGE \notin op.rendered
       /\ {GREETING, SIDEBAR} \subseteq op.rendered

SessionIds == {ChatIds[i] : i \in 1..Len(ChatIds)}

\* the run removed the stored chat session id
Deleted(id) == Ran /\ id \in op.backend.chats /\ id \notin gen_args.chats

\* st.session_state.get(key) when the run started and when it ended
Before(key) == Get(op.before, key, NoValue)
After(key) == Get(ss, key, NoValue)

\* the run rendered the clicked button: st.button returned True
Pressed == Ran /\ op.click \in op.widgets

\* the run asked for the deletion of id and the backend refused it
DeleteFailed(id) ==
    /\ Ran
    /\ op.click = <<"confirm_delete", id>>
    /\ op.shown # <<>>
    /\ op.shown[Len(op.shown)] = "Failed to delete"

\* what C36 says of everything but the current session after a deletion
TwoStepDelete(id) ==
    /\ Deleted(id) =>
          /\ op.click = <<"confirm_delete", id>>
          /\ Before("delete_confirmation") = id
          /\ After("delete_confirmation") = NoValue
    /\ Ran /\ After("delete_confirmation") = id
           /\ Before("delete_confirmation") # id =>
          op.click = <<"delete", id>>
    /\ Ran /\ Before("delete_confirmation") = id /\ Pressed
           /\ op.click \in {<<"delete", id>>, <<"cancel_delete", id>>} =>
          /\ After("delete_confirmation") = NoValue
          /\ gen_args.chats = op.backend.chats
    /\ DeleteFailed(id) =>
          /\ After("delete_confirmation") = Before("delete_confirmation")
          /\ After("current_session") = Before("current_session")
          /\ Has(ss, "current_session") = Has(op.before, "current_session")

\* C36 as stated: a chat session is deleted only by "Yes" on it while
\* delete_confirmation is its id, which only a delete click on it sets; a
\* second delete click or "No" cancels without deleting; after a deletion
\* delete_confirmation is None and current_session is None if and only if
\* the deleted session was the active one; a failed deletion leaves both
\* unchanged.
C36_CurrentNoneIffActive ==
    \A id \in SessionIds :
       /\ TwoStepDelete(id)
       /\ Deleted(id) =>
             (After("current_session") = NoValue
                <=> Before("current_session") = id)

\* C36 amended: as stated, but after a deletion current_session is None if
\* the deleted session was the active one and is what it was otherwise.
C36_CurrentNoneIfActive ==
    \A id \in SessionIds :
       /\ TwoStepDelete(id)
       /\ Deleted(id) =>
             After("current_session") =
                IF Before("current_session") = id THEN NoValue
                ELSE Before("current_session")

\* the other of two sessions is open, and this one is deleted
C36_Witness ==
    \E id \in SessionIds :
       /\ Deleted(id)
       /\ Before("current_session") \in SessionIds \ {id}
       /\ After("current_session") = Before("current_session")

----------------------------------------------------------------------------
(* The shape of the knowledge base, checked under SpecKb *)

Vocabulary == {key_indicators[i] : i \in 1..Len(key_indicators)}

\* C37: the knowledge base has only indicators of the ten-term vocabulary as
\* keys, every indicator stored has a profile, and every (indicator, profile)
\* list holds one to three snippets, each containing the indicator whatever
\* its case: no update leaves an empty list or an empty indicator entry.
C37_KnowledgeBaseShape ==
    \A i \in 1..Len(ss.knowledge_base) :
       LET indicator == ss.knowledge_base[i][1]
           profiles == ss.knowledge_base[i][2]
       IN /\ indicator \in Vocabulary
          /\ profiles # <<>>
          /\ \A j \in 1..Len(profiles) :
                /\ Len(profiles[j][2]) \in 1..3
                /\ \A k \in 1..Len(profiles[j][2]) :
                      Contains(Lower(profiles[j][2][k]), indicator)

\* a full list took one more snippet, after an update whose analysis names
\* no indicator on any line
C37_Witness ==
    /\ Len(op.updates) = MaxUpdates
    /\ \E n \in 1..Len(op.updates) : op.updates[n][2] = ANALYSIS_BROKEN
    /\ \E i \in 1..Len(ss.knowledge_base) :
          \E j \in 1..Len(ss.knowledge_base[i][2]) :
             /\ Len(ss.knowledge_base[i][2][j][2]) = 3
             /\ \E k \in 1..3 :
                   ss.knowledge_base[i][2][j][2][k] =
                      <<"H","D","L"," ","l","o","w">>

----------------------------------------------------------------------------
(* The system message of the entry point, checked under SpecService *)

----------------------------------------------------------------------------
(* What a cleared session forgets, checked under SpecClear *)

\* the keys of the analysis agent: itself, the usage counters, the
\* knowledge base
AgentKeys ==
    {"analysis_agent", "analysis_count", "last_analysis", "analysis_limit",
     "models_used", "knowledge_base"}

\* the snippets a knowledge base of these sessions can hold
AllSnippets ==
    {INSIGHT_HDL, <<"H","D","L"," ","l","o","w">>, <<"h","d","l"," ","u","p">>}

\* the system messages of the last analysis
BuiltPrompts ==
    {RequestsOf(gen_events)[n].system : n \in 1..Len(RequestsOf(gen_events))}

\* C39: a page run that clears the session state (the Logout button, the
\* idle timeout, a new login) leaves no key of the analysis agent, the usage
\* counters or the knowledge base in it, and the prompt of an analysis
\* holds no snippet but those stored since the state was last cleared.
C39_ClearForgetsSnippets ==
    /\ op.name = "run" /\ op.cleared => DOMAIN ss \cap AgentKeys = {}
    /\ op.name = "analyze" =>
          \A prompt \in BuiltPrompts, snippet \in AllSnippets :
             Contains(prompt, snippet) => snippet \in op.known

\* after a clear, an analysis has stored a snippet and the next one recalls
\* it, and not the snippet of the knowledge base the session began with
C39_Witness ==
    /\ op.name = "analyze"
    /\ INSIGHT_HDL \in op.dropped
    /\ INSIGHT_HDL \notin op.known
    /\ \E prompt \in BuiltPrompts :
          /\ Contains(prompt, <<"H","D","L"," ","l","o","w">>)
          /\ ~Contains(prompt, INSIGHT_HDL)

----------------------------------------------------------------------------
(* The token validation of the page runs, checked under SpecPage *)

\* the n-th validation of the run found the client's token to be the stored one
TokenMatched(n) ==
    /\ op.validated[n]
    /\ op.matched[n][1] # NoValue
    /\ op.matched[n][1] = op.matched[n][2]

\* C40: a page run that renders authenticated content (greeting, sidebar,
\* chat history, analysis form, welcome screen) has validated the client's
\* session token against the stored auth_token, with success, before; a run
\* that starts with a stored user and whose validation fails clears the
\* session state, leaves no user and no token, and renders none of it.
C40_ValidatedBeforeContent ==
    Ran =>
       /\ op.rendered \cap AuthenticatedContent # {} =>
             /\ op.validated # <<>>
             /\ \A n \in 1..Len(op.validated) : TokenMatched(n)
       /\ (Has(op.before, "user")
            /\ \E n \in 1..Len(op.validated) : ~op.validated[n]) =>
             /\ op.cleared
             /\ DOMAIN ss \cap {"user", "auth_token"} = {}
             /\ op.rendered \cap AuthenticatedContent = {}

\* a logged-in user's run shows the chat history and the analysis form after
\* its validations
C40_Witness ==
    /\ Ran
    /\ {SIDEBAR, CHAT_HISTORY, ANALYSIS_FORM} \subseteq op.rendered
    /\ Len(op.validated) = 2
    /\ TokenMatched(2)

====
